---- MODULE Spec2Model ----
(***************************************************************************)
(* shellai: the command lifecycle (generate, review, execute, AI-assisted  *)
(* retry), the risk classifier and the text functions they use.            *)
(*                                                                         *)
(* A text is a sequence of one-character strings, so that splitting,       *)
(* trimming, whitespace collapsing and the regular expressions of the      *)
(* source are computed character by character, as the code computes them.  *)
(***************************************************************************)
EXTENDS Integers, Sequences, FiniteSets, TLC

\* ------------------------------------------------------------------ bounds
\* Review prompts shown in one session (the review loop itself is unbounded).
MaxReviews == 3

\* ------------------------------------------------------------- characters
LowerCase ==
    {"a", "b", "c", "d", "e", "f", "g", "h", "i", "j", "k", "l", "m",
     "n", "o", "p", "q", "r", "s", "t", "u", "v", "w", "x", "y", "z"}

UpperCase ==
    {"A", "B", "C", "D", "E", "F", "G", "H", "I", "J", "K", "L", "M",
     "N", "O", "P", "Q", "R", "S", "T", "U", "V", "W", "X", "Y", "Z"}

Digits == {"0", "1", "2", "3", "4", "5", "6", "7", "8", "9"}

\* \w of a JavaScript regular expression
WordChars == LowerCase \cup UpperCase \cup Digits \cup {"_"}

\* \s of a JavaScript regular expression (the ASCII part)
WhiteSpace == {" ", "\t", "\n", "\r", "\f"}

\* what `.` does not match
LineTerminators == {"\n", "\r"}

\* the backtick character (a token of its own: the lexer reads a quoted backtick
\* as the start of a longer token)
Backtick == "BACKTICK"

\* ------------------------------------------------------------------ texts
\* The value a dismissed prompt leaves in response.value: JavaScript's
\* undefined.  It is no text; where the code coerces it to a string it reads
\* "undefined" (ToStr).
Undefined == <<"<undefined>">>

S_undefined == <<"u", "n", "d", "e", "f", "i", "n", "e", "d">>

ToStr(v) == IF v = Undefined THEN S_undefined ELSE v

T_ls_la == <<"l", "s", " ", "-", "l", "a">>
F_ls_ == <<"l", "s", " ">>
F_la == <<"-", "l", "a">>
T_rm_tmp == <<"r", "m", " ", "-", "r", "f", " ", "/", "t", "m", "p", "/", "x">>
T_sudo_rm_root == <<"s", "u", "d", "o", " ", "r", "m", " ", "-", "r", "f", " ", "/">>
F_sudo_rm == <<"s", "u", "d", "o", " ", "r", "m">>
F_rf_root == <<" ", "-", "r", "f", " ", "/">>
T_git_status == <<"g", "i", "t", " ", "s", "t", "a", "t", "u", "s">>
F_git_nl == <<"g", "i", "t", "\n">>
F_status_sp == <<" ", " ", "s", "t", "a", "t", "u", "s", " ">>
T_git_log_pipe == <<"g", "i", "t", " ", "l", "o", "g", "|", "w", "c">>
T_rmdir == <<"r", "m", "d", "i", "r", " ", "x">>
E_two_spaces == <<"l", "s", " ", " ", "-", "l", "a">>
E_pipe == <<"l", "s", "|", "w", "c">>
P_bin_sh == <<"/", "b", "i", "n", "/", "s", "h">>
P_zsh == <<"/", "b", "i", "n", "/", "z", "s", "h">>
P_git == <<"g", "i", "t">>
A_c == <<"-", "c">>

\* -------------------------------------------------------- string functions
RECURSIVE Concat_prepend(_)
\* mutant: each chunk is put in front of what was read so far
Concat_prepend(fragments) ==
    IF fragments = <<>> THEN <<>>
    ELSE Concat_prepend(Tail(fragments)) \o Head(fragments)

RECURSIVE Concat(_)
\* let s = ""; for await (const chunk of stream) s += chunk
Concat(fragments) ==
    IF fragments = <<>> THEN <<>>
    ELSE Head(fragments) \o Concat(Tail(fragments))

RECURSIVE DropLeadingWs(_)
DropLeadingWs(s) ==
    IF s # <<>> /\ Head(s) \in WhiteSpace THEN DropLeadingWs(Tail(s)) ELSE s

RECURSIVE DropTrailingWs(_)
DropTrailingWs(s) ==
    IF s # <<>> /\ s[Len(s)] \in WhiteSpace
    THEN DropTrailingWs(SubSeq(s, 1, Len(s) - 1))
    ELSE s

\* String.prototype.trim
Trim(s) == DropTrailingWs(DropLeadingWs(s))

RECURSIVE CollapseWs_each(_)
\* mutant: s.replace(/\s/g, " "), every whitespace character on its own
CollapseWs_each(s) ==
    IF s = <<>> THEN <<>>
    ELSE IF Head(s) \in WhiteSpace
         THEN <<" ">> \o CollapseWs_each(Tail(s))
         ELSE <<Head(s)>> \o CollapseWs_each(Tail(s))

RECURSIVE CollapseWs(_)
\* s.replace(/\s+/g, " ")
CollapseWs(s) ==
    IF s = <<>> THEN <<>>
    ELSE IF Head(s) \in WhiteSpace
         THEN <<" ">> \o CollapseWs(DropLeadingWs(Tail(s)))
         ELSE <<Head(s)>> \o CollapseWs(Tail(s))

\* command.replace(/\s+/g, " ").trim()
Normalize(s) == Trim(CollapseWs(s))

RECURSIVE SplitSpace(_, _)
\* s.split(" "), with `cur` the piece being read
SplitSpace(s, cur) ==
    IF s = <<>> THEN <<cur>>
    ELSE IF Head(s) = " "
         THEN <<cur>> \o SplitSpace(Tail(s), <<>>)
         ELSE SplitSpace(Tail(s), Append(cur, Head(s)))

Split(s) == SplitSpace(s, <<>>)

\* ------------------------------------------------- regular expression parts
IsWordAt(s, k) == k \in 1..Len(s) /\ s[k] \in WordChars

\* \b between s[i-1] and s[i]
Boundary(s, i) == IsWordAt(s, i - 1) # IsWordAt(s, i)

\* the literal w starts at s[i]
LitAt(s, i, w) == i >= 1 /\ i + Len(w) - 1 <= Len(s) /\ SubSeq(s, i, i + Len(w) - 1) = w

\* .* matches s[i..j-1]: no line terminator in it
DotStar(s, i, j) == \A k \in i..(j - 1) : s[k] \notin LineTerminators

\* s[i..] is whitespace only (\s*$)
WsToEnd(s, i) == \A k \in i..Len(s) : s[k] \in WhiteSpace

\* /\bw\b/.test(s)
TestWholeWord(s, w) ==
    \E i \in 1..Len(s) :
        LitAt(s, i, w) /\ Boundary(s, i) /\ Boundary(s, i + Len(w))

\* end positions of the literal lit found anywhere in s (a pattern's first part)
FirstEnds(s, lit, pre, post) ==
    {i + Len(lit) : i \in {k \in 1..Len(s) :
        /\ LitAt(s, k, lit)
        /\ pre => Boundary(s, k)
        /\ post => Boundary(s, k + Len(lit))}}

\* end positions of `.*lit` continuing a match that ended at one of `starts`
NextEnds(s, starts, lit, pre, post) ==
    {i + Len(lit) : i \in {k \in 1..Len(s) :
        /\ LitAt(s, k, lit)
        /\ pre => Boundary(s, k)
        /\ post => Boundary(s, k + Len(lit))
        /\ \E from \in starts : from <= k /\ DotStar(s, from, k)}}

\* \d+ starting at s[i]: the positions right after it
DigitsEnds(s, i) ==
    {j \in (i + 1)..(Len(s) + 1) : \A k \in i..(j - 1) : s[k] \in Digits}

\* ------------------------------------------------------------ risk classifier
V_rm == <<"r", "m">>
V_dd == <<"d", "d">>
V_mkfs == <<"m", "k", "f", "s">>
V_format == <<"f", "o", "r", "m", "a", "t">>
V_fdisk == <<"f", "d", "i", "s", "k">>
V_wipe == <<"w", "i", "p", "e">>
V_shred == <<"s", "h", "r", "e", "d">>
V_truncate == <<"t", "r", "u", "n", "c", "a", "t", "e">>

dangerousPatterns == {V_rm, V_dd, V_mkfs, V_format, V_fdisk, V_wipe, V_shred, V_truncate}

\* dangerousPatterns.some((pattern) => pattern.test(command))
isDangerous(command) ==
    \E w \in dangerousPatterns : TestWholeWord(ToStr(command), w)

dangerousChars == {";", "&", "|", ">", "<", "$", Backtick, "\\"}

CommandNameChars == LowerCase \cup UpperCase \cup Digits \cup {"_", "-", "."}

\* the validate callback of the edit prompt: TRUE when the value is accepted
editValidate(value) ==
    /\ Trim(value) # <<>>
    /\ \A k \in 1..Len(value) : value[k] \notin dangerousChars
    /\ LET cmd == Split(Trim(value))[1]
       IN  cmd # <<>> /\ \A k \in 1..Len(cmd) : cmd[k] \in CommandNameChars

L_sudo == <<"s", "u", "d", "o">>
L_rf == <<"-", "r", "f">>
L_slash == <<"/">>
L_mv == <<"m", "v">>
L_dev_null == <<"/", "d", "e", "v", "/", "n", "u", "l", "l">>
L_of_dev == <<"o", "f", "=", "/", "d", "e", "v", "/">>
L_nvme == <<"n", "v", "m", "e">>
L_f == <<"-", "f">>
L_u == <<"-", "u">>
L_z == <<"-", "z">>

\* /[&|;><]\s*$/, /\b\w+\s*=\s*$/, /^[\s|&;><!]/, /\(\s*\)/
syntaxErrors(s) ==
    \/ \E i \in 1..Len(s) : s[i] \in {"&", "|", ";", ">", "<"} /\ WsToEnd(s, i + 1)
    \/ \E i \in 1..Len(s) : \E e \in (i + 1)..Len(s) :
          /\ Boundary(s, i)
          /\ s[e] = "="
          /\ WsToEnd(s, e + 1)
          /\ \E j \in (i + 1)..e :
                /\ \A k \in i..(j - 1) : s[k] \in WordChars
                /\ \A k \in j..(e - 1) : s[k] \in WhiteSpace
    \/ s # <<>> /\ s[1] \in WhiteSpace \cup {"|", "&", ";", ">", "<", "!"}
    \/ \E i \in 1..Len(s) : \E j \in (i + 1)..Len(s) :
          /\ s[i] = "("
          /\ s[j] = ")"
          /\ \A k \in (i + 1)..(j - 1) : s[k] \in WhiteSpace

\* /\bsudo\b.*rm\b.*-rf\b.*\/\b/
BlockedSudoRm(s) ==
    NextEnds(s, NextEnds(s, NextEnds(s, FirstEnds(s, L_sudo, TRUE, TRUE),
        V_rm, FALSE, TRUE), L_rf, FALSE, TRUE), L_slash, FALSE, TRUE) # {}

\* /\bmv\b.*\/\b.*\/dev\/null\b/
BlockedMvDevNull(s) ==
    NextEnds(s, NextEnds(s, FirstEnds(s, L_mv, TRUE, TRUE),
        L_slash, FALSE, TRUE), L_dev_null, FALSE, TRUE) # {}

\* /\bdd\b.*of=\/dev\/([hs]d[a-z]|nvme\d+n\d+)/
BlockedDdDevice(s) ==
    \E p \in NextEnds(s, FirstEnds(s, V_dd, TRUE, TRUE), L_of_dev, FALSE, FALSE) :
        \/ /\ p + 2 <= Len(s)
           /\ s[p] \in {"h", "s"}
           /\ s[p + 1] = "d"
           /\ s[p + 2] \in LowerCase
        \/ /\ LitAt(s, p, L_nvme)
           /\ \E q \in DigitsEnds(s, p + 4) :
                 q <= Len(s) /\ s[q] = "n" /\ DigitsEnds(s, q + 1) # {}

\* /\bmkfs\b.*-f\b/
BlockedMkfs(s) ==
    NextEnds(s, FirstEnds(s, V_mkfs, TRUE, TRUE), L_f, FALSE, TRUE) # {}

\* /\bshred\b.*-[uz]\b/
BlockedShred(s) ==
    \/ NextEnds(s, FirstEnds(s, V_shred, TRUE, TRUE), L_u, FALSE, TRUE) # {}
    \/ NextEnds(s, FirstEnds(s, V_shred, TRUE, TRUE), L_z, FALSE, TRUE) # {}

blockedCommands(s) ==
    \/ BlockedSudoRm(s)
    \/ BlockedMvDevNull(s)
    \/ BlockedDdDevice(s)
    \/ BlockedMkfs(s)
    \/ BlockedShred(s)

\* TRUE when the command passes; FALSE when it is rejected
validateCommand(command) ==
    /\ ~syntaxErrors(command)
    /\ ~blockedCommands(command)

\* ------------------------------------------------------------ script assembly
Placeholder ==
    <<"#", " ", "S", "c", "r", "i", "p", "t", " ", "c", "o", "n", "t", "e", "n", "t", " ",
      "h", "e", "r", "e">>

TemplateBash ==
    <<"#", "!", "/", "b", "i", "n", "/", "b", "a", "s", "h", "\n", "s", "e", "t", " ", "-",
      "e", "u", "o", " ", "p", "i", "p", "e", "f", "a", "i", "l", "\n", "I", "F", "S", "=",
      "$", "'", "\n", "\t", "'", "\n", "\n", "#", " ", "S", "c", "r", "i", "p", "t", " ",
      "c", "o", "n", "t", "e", "n", "t", " ", "h", "e", "r", "e", "\n">>

TemplatePython ==
    <<"#", "!", "/", "u", "s", "r", "/", "b", "i", "n", "/", "e", "n", "v", " ", "p", "y",
      "t", "h", "o", "n", "3", "\n", "\n", "i", "m", "p", "o", "r", "t", " ", "s", "y",
      "s", "\n", "i", "m", "p", "o", "r", "t", " ", "o", "s", "\n", "\n", "d", "e", "f",
      " ", "m", "a", "i", "n", "(", ")", ":", "\n", " ", " ", " ", " ", "#", " ", "S", "c",
      "r", "i", "p", "t", " ", "c", "o", "n", "t", "e", "n", "t", " ", "h", "e", "r", "e",
      "\n", " ", " ", " ", " ", "p", "a", "s", "s", "\n", "\n", "i", "f", " ", "_", "_",
      "n", "a", "m", "e", "_", "_", " ", "=", "=", " ", "\"", "_", "_", "m", "a", "i", "n",
      "_", "_", "\"", ":", "\n", " ", " ", " ", " ", "m", "a", "i", "n", "(", ")", "\n">>

TemplateNode ==
    <<"#", "!", "/", "u", "s", "r", "/", "b", "i", "n", "/", "e", "n", "v", " ", "n", "o",
      "d", "e", "\n", "\n", "a", "s", "y", "n", "c", " ", "f", "u", "n", "c", "t", "i",
      "o", "n", " ", "m", "a", "i", "n", "(", ")", " ", "{", "\n", " ", " ", " ", " ", "/",
      "/", " ", "S", "c", "r", "i", "p", "t", " ", "c", "o", "n", "t", "e", "n", "t", " ",
      "h", "e", "r", "e", "\n", "}", "\n", "\n", "m", "a", "i", "n", "(", ")", ".", "c",
      "a", "t", "c", "h", "(", "c", "o", "n", "s", "o", "l", "e", ".", "e", "r", "r", "o",
      "r", ")", ";", "\n">>

\* SCRIPT_TEMPLATES[scriptType]
SCRIPT_TEMPLATES(scriptType) ==
    CASE scriptType = "bash" -> TemplateBash
      [] scriptType = "python" -> TemplatePython
      [] scriptType = "node" -> TemplateNode

\* String.prototype.indexOf, 1-based; 0 when w does not occur in s
IndexOf(s, w) ==
    IF \E i \in 1..Len(s) : LitAt(s, i, w)
    THEN CHOOSE i \in 1..Len(s) :
            LitAt(s, i, w) /\ \A j \in 1..(i - 1) : ~LitAt(s, j, w)
    ELSE 0

RECURSIVE GetSubstitution(_, _, _, _)
\* the replacement text of String.prototype.replace with a string pattern:
\* $$ is $, $& the match, $ followed by a backtick what precedes it, $' what follows it
GetSubstitution(r, matched, before, after) ==
    IF r = <<>> THEN <<>>
    ELSE IF Head(r) = "$" /\ Len(r) >= 2 /\ r[2] \in {"$", "&", Backtick, "'"}
         THEN (CASE r[2] = "$" -> <<"$">>
                 [] r[2] = "&" -> matched
                 [] r[2] = Backtick -> before
                 [] r[2] = "'" -> after)
              \o GetSubstitution(SubSeq(r, 3, Len(r)), matched, before, after)
         ELSE <<Head(r)>> \o GetSubstitution(Tail(r), matched, before, after)

\* s.replace(w, r) with w a string: the first occurrence only
Replace(s, w, r) ==
    LET i == IndexOf(s, w)
        before == SubSeq(s, 1, i - 1)
        after == SubSeq(s, i + Len(w), Len(s))
    IN  IF i = 0 THEN s
        ELSE before \o GetSubstitution(r, w, before, after) \o after

\* content = content.trim(); script = template.replace("# Script content here", content)
AssembleScript(scriptType, content) ==
    Replace(SCRIPT_TEMPLATES(scriptType), Placeholder, Trim(content))

K_bash == <<"b", "a", "s", "h">>
K_python == <<"p", "y", "t", "h", "o", "n">>
K_node == <<"n", "o", "d", "e">>

\* path.join(await fs.mkdtemp(path.join(process.cwd(), ".temp-")), `script.${scriptType}`)
\* for the working directory /w and the suffix mkdtemp drew
scriptPath(scriptType) ==
    <<"/", "w", "/", ".", "t", "e", "m", "p", "-", "A", "/", "s", "c", "r", "i", "p", "t", ".">>
    \o (CASE scriptType = "bash" -> K_bash
          [] scriptType = "python" -> K_python
          [] scriptType = "node" -> K_node)

\* ------------------------------------------------------------ the secret vault
\* CredentialsManager of provider-service.ts.  Bytes are the naturals below 256,
\* hex text is a sequence of one-character strings like every other text.
BlockSize == 16

\* the printable ASCII characters in code order, from 0x20 to 0x7e
Ascii ==
    << " ", "!", "\"", "#", "$", "%", "&", "'", "(", ")", "*", "+",
       ",", "-", ".", "/", "0", "1", "2", "3", "4", "5", "6", "7",
       "8", "9", ":", ";", "<", "=", ">", "?", "@", "A", "B", "C",
       "D", "E", "F", "G", "H", "I", "J", "K", "L", "M", "N", "O",
       "P", "Q", "R", "S", "T", "U", "V", "W", "X", "Y", "Z", "[",
       "\\", "]", "^", "_", Backtick, "a", "b", "c", "d", "e", "f", "g",
       "h", "i", "j", "k", "l", "m", "n", "o", "p", "q", "r", "s",
       "t", "u", "v", "w", "x", "y", "z", "{", "|", "}", "~" >>

HexDigits == <<"0", "1", "2", "3", "4", "5", "6", "7", "8", "9", "a", "b", "c", "d", "e", "f">>

HexDigitsUpper == <<"0", "1", "2", "3", "4", "5", "6", "7", "8", "9", "A", "B", "C", "D", "E", "F">>

\* the code unit of a printable character
CharCode(c) == 31 + (CHOOSE i \in 1..Len(Ascii) : Ascii[i] = c)

\* the "utf8" output encoding of a decipher: a byte outside the printable range
\* comes out as a control or replacement character
FromCharCode(b) == IF b \in 32..126 THEN Ascii[b - 31] ELSE "NONPRINTABLE"

\* cipher.update(text, "utf8", ...): the bytes of a printable-ASCII text
Utf8Encode(text) == [i \in 1..Len(text) |-> CharCode(text[i])]

Utf8Decode(bytes) == [i \in 1..Len(bytes) |-> FromCharCode(bytes[i])]

\* iv.toString("hex"), the "hex" output encoding of a cipher
ToHex(bytes) ==
    [i \in 1..(2 * Len(bytes)) |->
        IF i % 2 = 1 THEN HexDigits[(bytes[(i + 1) \div 2] \div 16) + 1]
                     ELSE HexDigits[(bytes[i \div 2] % 16) + 1]]

IsHexDigit(c) == \E i \in 1..16 : HexDigits[i] = c \/ HexDigitsUpper[i] = c

HexValue(c) == (CHOOSE i \in 1..16 : HexDigits[i] = c \/ HexDigitsUpper[i] = c) - 1

\* how many leading two-digit pairs of a text are hex: decoding stops at the
\* first pair that is not
RECURSIVE HexPairs(_)
HexPairs(text) ==
    IF Len(text) >= 2 /\ IsHexDigit(text[1]) /\ IsHexDigit(text[2])
    THEN 1 + HexPairs(SubSeq(text, 3, Len(text)))
    ELSE 0

\* Buffer.from(text, "hex"), the "hex" input encoding of a decipher
FromHex(text) ==
    [i \in 1..HexPairs(text) |-> 16 * HexValue(text[2 * i - 1]) + HexValue(text[2 * i])]

\* bitwise exclusive or of two bytes
RECURSIVE Xor(_, _)
Xor(a, b) ==
    IF a = 0 /\ b = 0 THEN 0
    ELSE ((a + b) % 2) + 2 * Xor(a \div 2, b \div 2)

XorBlock(x, y) == [i \in 1..BlockSize |-> Xor(x[i], y[i])]

\* scryptSync("shellai-secret-key", "salt", 32): 32 fixed bytes.  The key
\* derivation is not computed; any fixed 32 bytes stand for its output.
masterKey == [i \in 1..32 |-> (i * 37 + 11) % 256]

\* the block cipher under masterKey, represented by a keyed permutation of
\* each byte of the block, and its inverse
EncryptBlock(block) ==
    [i \in 1..BlockSize |-> (block[i] * 167 + masterKey[i] + masterKey[BlockSize + i]) % 256]

DecryptBlock(block) ==
    [i \in 1..BlockSize |->
        ((block[i] + 512 - masterKey[i] - masterKey[BlockSize + i]) * 23) % 256]

\* the padding cipher.final adds: n bytes of value n, a whole block when the
\* text fills its last block
Pad(bytes) ==
    LET n == BlockSize - (Len(bytes) % BlockSize)
    IN bytes \o [i \in 1..n |-> n]

\* cipher block chaining
RECURSIVE CbcEncrypt(_, _)
CbcEncrypt(prev, plain) ==
    IF plain = <<>> THEN <<>>
    ELSE LET c == EncryptBlock(XorBlock(SubSeq(plain, 1, BlockSize), prev))
         IN c \o CbcEncrypt(c, SubSeq(plain, BlockSize + 1, Len(plain)))

\* mutant: every block is chained to the iv, none to the block before it
RECURSIVE CbcDecrypt_ivEveryBlock(_, _)
CbcDecrypt_ivEveryBlock(prev, cipher) ==
    IF cipher = <<>> THEN <<>>
    ELSE XorBlock(DecryptBlock(SubSeq(cipher, 1, BlockSize)), prev)
            \o CbcDecrypt_ivEveryBlock(prev, SubSeq(cipher, BlockSize + 1, Len(cipher)))

RECURSIVE CbcDecrypt(_, _)
CbcDecrypt(prev, cipher) ==
    IF cipher = <<>> THEN <<>>
    ELSE LET c == SubSeq(cipher, 1, BlockSize)
         IN XorBlock(DecryptBlock(c), prev)
               \o CbcDecrypt(c, SubSeq(cipher, BlockSize + 1, Len(cipher)))

\* decipher.final checks the padding it removes
PaddingOk(plain) ==
    /\ Len(plain) >= BlockSize
    /\ LET n == plain[Len(plain)]
       IN /\ n \in 1..BlockSize
          /\ \A i \in (Len(plain) - n + 1)..Len(plain) : plain[i] = n

Unpad(plain) == SubSeq(plain, 1, Len(plain) - plain[Len(plain)])

\* encrypt(text) with the 16 random bytes it drew
encrypt(text, iv) ==
    [iv |-> ToHex(iv), encrypted |-> ToHex(CbcEncrypt(iv, Pad(Utf8Encode(text))))]


\* decrypt(encrypted, iv): the text, or the error createDecipheriv or
\* decipher.final throws
decrypt(encrypted, iv) ==
    LET ivBytes == FromHex(iv)
        cipher == FromHex(encrypted)
        plain == CbcDecrypt(ivBytes, cipher)
    IN IF Len(ivBytes) # BlockSize
       THEN [threw |-> TRUE, text |-> <<>>, message |-> "Invalid initialization vector"]
       ELSE IF cipher = <<>> \/ Len(cipher) % BlockSize # 0
       THEN [threw |-> TRUE, text |-> <<>>, message |-> "wrong final block length"]
       ELSE IF ~PaddingOk(plain)
       THEN [threw |-> TRUE, text |-> <<>>, message |-> "bad decrypt"]
       ELSE [threw |-> FALSE, text |-> Utf8Decode(Unpad(plain)), message |-> "none"]

\* the closed set of provider identities, in the order listProviders walks it
allProviders == <<"anthropic", "openai", "gemini">>

Providers == {allProviders[i] : i \in 1..Len(allProviders)}

\* the two invocations of the program that may use the vault at the same time
Procs == {"first", "second"}

\* how many vault operations and outside changes of the file a run holds
MaxOps == 3

\* API keys the user may enter: none, a short one, one that fills a block
K_empty == <<>>

K_short == <<"s", "k", "-", "1">>

K_block == <<"A", "z", "0", "9", " ", "~", "!", "\"", "\\", "$", "{", "}", "/", "=", "+", "_">>

Keys == {K_empty, K_short, K_block}

\* what randomBytes(16) returns in the n-th operation of a run: every call
\* draws bytes no earlier call drew
randomBytes(n) == [i \in 1..BlockSize |-> (i * 29 + n * 53) % 256]

\* encrypt(apiKey) for every key and every draw, evaluated once
Encrypted == [apiKey \in Keys, n \in 1..MaxOps |-> encrypt(apiKey, randomBytes(n))]

\* the credentials file: missing, not JSON, a JSON object without a
\* "credentials" member, or a store.  The credentials of a store map some of
\* the providers to their apiKey record {iv, encrypted}.
NoCredentials == [p \in {} |-> [iv |-> <<>>, encrypted |-> <<>>]]

FileAbsent == [kind |-> "absent", credentials |-> NoCredentials]

FileUnparsable == [kind |-> "unparsable", credentials |-> NoCredentials]

FileObject == [kind |-> "object", credentials |-> NoCredentials]

Store(credentials) == [kind |-> "store", credentials |-> credentials]

\* readCredentialsData: the credentials it returns for what the file holds
readCredentialsData(f) == IF f.kind = "store" THEN f.credentials ELSE NoCredentials

\* mutant: the data written holds the new record only
WithRecord_alone(credentials, provider, record) == [p \in {provider} |-> record]

\* mutant: an existing record keeps its iv and takes the new cipher text only
WithRecord_keepIv(credentials, provider, record) ==
    [p \in (DOMAIN credentials) \cup {provider} |->
        IF p = provider
        THEN IF provider \in DOMAIN credentials
             THEN [iv |-> credentials[provider].iv, encrypted |-> record.encrypted]
             ELSE record
        ELSE credentials[p]]

\* data.credentials[provider] = { apiKey: record }, the other members kept
WithRecord(credentials, provider, record) ==
    [p \in (DOMAIN credentials) \cup {provider} |->
        IF p = provider THEN record ELSE credentials[p]]

\* changes of a stored record made outside the program
Tamperings == {"iv_short", "iv_not_hex", "iv_first", "iv_last", "cipher_last", "cipher_short"}

OtherHex(c) == IF c = "0" THEN "1" ELSE "0"

Tamper(record, how) ==
    LET iv == record.iv
        ct == record.encrypted
    IN CASE how = "iv_short" -> [record EXCEPT !.iv = SubSeq(iv, 1, Len(iv) - 2)]
         [] how = "iv_not_hex" -> [record EXCEPT !.iv = [iv EXCEPT ![1] = "z"]]
         [] how = "iv_first" -> [record EXCEPT !.iv = [iv EXCEPT ![2] = OtherHex(iv[2])]]
         [] how = "iv_last" -> [record EXCEPT !.iv = [iv EXCEPT ![Len(iv)] = OtherHex(iv[Len(iv)])]]
         [] how = "cipher_last" ->
               [record EXCEPT !.encrypted = [ct EXCEPT ![Len(ct)] = OtherHex(ct[Len(ct)])]]
         [] OTHER -> [record EXCEPT !.encrypted = SubSeq(ct, 1, Len(ct) - 2)]

\* every record a run can hold: what encrypt returns and what damage makes of it
Records ==
    {Encrypted[c] : c \in DOMAIN Encrypted}
       \cup {Tamper(Encrypted[c], how) : c \in DOMAIN Encrypted, how \in Tamperings}

\* decrypt(record.encrypted, record.iv) for every such record, evaluated once
Decrypted == [record \in Records |-> decrypt(record.encrypted, record.iv)]

\* mutant: a record that cannot be decrypted is treated as no record
getCredentials_swallow(f, provider) ==
    LET data == readCredentialsData(f)
    IN IF provider \notin DOMAIN data
       THEN [outcome |-> "absent", value |-> <<>>, message |-> "none"]
       ELSE LET d == Decrypted[data[provider]]
            IN IF d.threw
               THEN [outcome |-> "absent", value |-> <<>>, message |-> "none"]
               ELSE [outcome |-> "value", value |-> d.text, message |-> "none"]

\* mutant: a file that cannot be read or parsed makes the lookup fail
getCredentials_strictRead(f, provider) ==
    LET data == readCredentialsData(f)
    IN IF f.kind \in {"absent", "unparsable"}
       THEN [outcome |-> "raised", value |-> <<>>, message |-> "read failed"]
       ELSE IF provider \notin DOMAIN data
       THEN [outcome |-> "absent", value |-> <<>>, message |-> "none"]
       ELSE LET d == Decrypted[data[provider]]
            IN IF d.threw
               THEN [outcome |-> "raised", value |-> <<>>, message |-> d.message]
               ELSE [outcome |-> "value", value |-> d.text, message |-> "none"]

\* getCredentials(provider) for what the file holds: undefined, the decrypted
\* key, or the error decrypt throws
getCredentials(f, provider) ==
    LET data == readCredentialsData(f)
    IN IF provider \notin DOMAIN data
       THEN [outcome |-> "absent", value |-> <<>>, message |-> "none"]
       ELSE LET d == Decrypted[data[provider]]
            IN IF d.threw
               THEN [outcome |-> "raised", value |-> <<>>, message |-> d.message]
               ELSE [outcome |-> "value", value |-> d.text, message |-> "none"]

\* what a generate command prints after its getCredentials call
CallerReport(got) ==
    IF got.outcome = "raised" THEN got.message
    ELSE IF got.outcome = "absent" \/ got.value = <<>> THEN "No API key found"
    ELSE "none"

\* allProviders.filter(...) and the loop that pushes to configured
RECURSIVE Filter(_, _)
Filter(seq, keep) ==
    IF seq = <<>> THEN <<>>
    ELSE (IF seq[1] \in keep THEN <<seq[1]>> ELSE <<>>) \o Filter(Tail(seq), keep)

Includes(seq, x) == \E i \in 1..Len(seq) : seq[i] = x

\* mutant: unconfigured is every provider
listProviders_allUnconfigured(f) ==
    [configured |-> Filter(allProviders, DOMAIN readCredentialsData(f)),
     unconfigured |-> allProviders]

\* listProviders() for what the file holds
listProviders(f) ==
    LET data == readCredentialsData(f)
        configured == Filter(allProviders, DOMAIN data)
    IN [configured |-> configured,
        unconfigured |-> Filter(allProviders, {p \in Providers : ~Includes(configured, p)})]

VARIABLES
    file,         \* what ~/.config/shellai/credentials holds
    vpc,          \* per invocation: "idle", or "saving" between read and write
    view,         \* per invocation: the save it has in progress
    result,       \* what the last finished vault operation returned, and to whom
    ops,          \* operations started and outside changes made
    saved,        \* history: per provider, the key of its last completed save
    damaged,      \* history: the providers whose record in the file is one changed from outside
    raced,        \* history: a save wrote over a file that changed after its read
    lastWriter    \* history: who changed the file last

vaultVars ==
    <<file, vpc, view, result, ops, saved, damaged, raced, lastWriter>>

NoRecord == [iv |-> <<>>, encrypted |-> <<>>]

NoView ==
    [provider |-> "none", key |-> <<>>, seen |-> FileAbsent, data |-> NoCredentials,
     record |-> NoRecord, lost |-> "none", lostRecord |-> NoRecord, damaged |-> {}]

NoResult ==
    [proc |-> "none", op |-> "none", provider |-> "none", outcome |-> "none", value |-> <<>>,
     message |-> "none", report |-> "none", configured |-> <<>>, unconfigured |-> <<>>,
     lost |-> "none", lostRecord |-> NoRecord, replaced |-> NoRecord,
     wrote |-> NoCredentials]

\* no invocation has used the vault yet
VaultIdle ==
    /\ vpc = [q \in Procs |-> "idle"]
    /\ view = [q \in Procs |-> NoView]
    /\ result = NoResult
    /\ ops = 0
    /\ saved = [p \in Providers |-> [known |-> FALSE, key |-> <<>>]]
    /\ damaged = {}
    /\ raced = FALSE
    /\ lastWriter = "none"

\* ---------------------------------------------------------- the provider stream
\* ProviderService.streamChat and the loops that consume it.
\* how many messages a conversation holds and how many events a transport sends
MaxMessages == 2

MaxEvents == 3

Roles == {"system", "user", "assistant"}

M_question == <<"h", "i">>

M_rules == <<"b", "e", " ", "b", "r", "i", "e", "f">>

ChatMessages == [role : Roles, content : {M_question, M_rules}]

\* the conversations streamChat may be given
Conversations == UNION {[1..n -> ChatMessages] : n \in 0..MaxMessages}

\* the role msg.role is sent as
AdaptRole(provider, role) ==
    CASE provider = "anthropic" -> IF role = "user" THEN "user" ELSE "assistant"
      [] provider = "openai" -> role
      [] OTHER -> IF role = "user" THEN "user" ELSE "model"

\* mutant: the adapter leaves the system messages out
Adapt_dropSystem(provider, msgs) ==
    LET kept == SelectSeq(msgs, LAMBDA m : m.role # "system")
    IN [i \in 1..Len(kept) |->
           [role |-> AdaptRole(provider, kept[i].role), content |-> kept[i].content]]

\* messages.map(...): the entries of the request
Adapt(provider, msgs) ==
    [i \in 1..Len(msgs) |->
        [role |-> AdaptRole(provider, msgs[i].role), content |-> msgs[i].content]]

\* what a transport may send.  type and delta say what the event is, text is
\* the reply text it carries and other is what else it carries.
EventTexts == {F_ls_, F_la, <<>>}

AnthropicEvents ==
    [type : {"content_block_delta"}, delta : {"text_delta"}, text : EventTexts, other : {<<>>}]
      \cup [type : {"content_block_delta"}, delta : {"input_json_delta"},
            text : {<<>>}, other : {F_la}]
      \cup [type : {"message_start"}, delta : {"none"},
            text : {<<>>}, other : {<<>>}]

\* a chunk whose first choice has a content delta, one whose first choice has
\* a delta without content, and one without choices
OpenAIEvents ==
    [type : {"chunk"}, delta : {"content"}, text : EventTexts, other : {<<>>}]
      \cup [type : {"chunk"}, delta : {"role", "no_choice"}, text : {<<>>}, other : {<<>>}]

GeminiEvents == [type : {"chunk"}, delta : {"text"}, text : EventTexts, other : {<<>>}]

TransportEvents(provider) ==
    CASE provider = "anthropic" -> AnthropicEvents
      [] provider = "openai" -> OpenAIEvents
      [] OTHER -> GeminiEvents

\* mutant: every content_block_delta is yielded, whatever its delta holds
Yield_anyDelta(provider, e) ==
    CASE provider = "anthropic" ->
            IF e.type = "content_block_delta"
            THEN <<IF e.delta = "text_delta" THEN e.text ELSE e.other>>
            ELSE <<>>
      [] provider = "openai" ->
            IF e.delta = "content" /\ e.text # <<>> THEN <<e.text>> ELSE <<>>
      [] OTHER -> IF e.text # <<>> THEN <<e.text>> ELSE <<>>

\* mutant: openai and gemini yield without looking at the text
Yield_unfiltered(provider, e) ==
    CASE provider = "anthropic" ->
            IF e.type = "content_block_delta" /\ e.delta = "text_delta"
            THEN <<e.text>>
            ELSE <<>>
      [] provider = "openai" ->
            IF e.delta = "content" THEN <<e.text>> ELSE <<>>
      [] OTHER -> <<e.text>>

\* the fragments the loop of streamChat yields for one event: none or one
Yield(provider, e) ==
    CASE provider = "anthropic" ->
            IF e.type = "content_block_delta" /\ e.delta = "text_delta"
            THEN <<e.text>>
            ELSE <<>>
      [] provider = "openai" ->
            IF e.delta = "content" /\ e.text # <<>> THEN <<e.text>> ELSE <<>>
      [] OTHER -> IF e.text # <<>> THEN <<e.text>> ELSE <<>>

\* this.provider: the three identities, and a --provider option that names none
\* of them (options.provider as Provider is not checked)
P_other == "mistral"

Identities == Providers \cup {P_other}

\* initializeClient(): the clients the constructor creates
initializeClient(provider) == IF provider \in Providers THEN {provider} ELSE {}

\* what is thrown: isError is `instanceof Error`, id tells the thrown values
\* apart, cause is the id of the value an error was made from
NoError == [isError |-> FALSE, id |-> "none", message |-> "none", cause |-> "none"]

\* what a transport may throw: an Error of the SDK, or a value that is no Error
TransportFailures ==
    { [isError |-> TRUE, id |-> "api_error", message |-> "401 unauthorized", cause |-> "none"],
      [isError |-> FALSE, id |-> "abort_reason", message |-> "none", cause |-> "none"] }

\* throw new Error("... client not initialized")
NotInitialized(provider) ==
    [isError |-> TRUE, id |-> "new_error",
     message |-> CASE provider = "anthropic" -> "Anthropic client not initialized"
                   [] provider = "openai" -> "OpenAI client not initialized"
                   [] OTHER -> "Gemini client not initialized",
     cause |-> "none"]

\* the catch block: throw error instanceof Error ? error : new Error("Unknown ...")
Rethrow(error) ==
    IF error.isError
    THEN error
    ELSE [isError |-> TRUE, id |-> "new_error",
          message |-> "Unknown error occurred while streaming chat", cause |-> "none"]

\* the loops that read a stream: command += chunk of the generate commands,
\* correctedCommand += chunk of executeCommand, fullResponse += chunk of
\* streamResponse
Consumers == {"generation", "correction", "streamResponse"}

VARIABLES
    service,      \* this.provider of the ProviderService
    clients,      \* the clients the constructor initialised
    messages,     \* the conversation streamChat was called with
    consumer,     \* which loop reads the stream
    spc,          \* where the call is: "idle", "streaming", "done", "failed"
    request,      \* the entries sent to the provider
    transport,    \* history: how many requests were made to the transport
    cause,        \* history: what the transport threw
    thrown,       \* what streamChat threw to its caller
    events,       \* history: the transport events received
    yielded,      \* history: the fragments streamChat yielded
    fullResponse  \* the reply the consumer has built

streamVars ==
    <<service, clients, messages, consumer, spc, request, transport, cause, thrown,
      events, yielded, fullResponse>>

\* no streamChat call of its own is followed
StreamIdle ==
    /\ service = "anthropic"
    /\ clients = {}
    /\ messages = <<>>
    /\ consumer = "generation"
    /\ spc = "idle"
    /\ request = <<>>
    /\ transport = 0
    /\ cause = NoError
    /\ thrown = NoError
    /\ events = <<>>
    /\ yielded = <<>>
    /\ fullResponse = <<>>

\* ------------------------------------------------------------ the interrupts
\* The SIGINT and SIGTERM listeners the modules register when they are
\* evaluated, the raw mode a prompt puts the terminal in, and what happens
\* when a signal arrives.
\* how many prompts an invocation opens
MaxPrompts == 5

Signals == {"SIGINT", "SIGTERM"}

\* the order the modules are evaluated in: an import is evaluated before the
\* body of the module that imports it, so commands/config comes before the
\* body of the entry module
ImportOrder == <<"config", "index">>

\* what process.on(signal, ...) of a module leaves in the listener lists
Register(lists, module) == [s \in Signals |-> Append(lists[s], module)]

\* what the listener of a module does, as the steps it takes: config logs and
\* exits; index logs, calls cleanup() and exits.  setRawMode exists on a
\* terminal only: elsewhere cleanup() throws and the exception ends the process.
Listener(module, tty) ==
    CASE module = "config" -> <<"log", "exit0">>
      [] tty -> <<"log", "setRawMode", "pause", "exit0">>
      [] OTHER -> <<"log", "throw">>

VARIABLES
    loaded,       \* the modules evaluated so far
    listeners,    \* the listeners of each signal, in the order registered
    isTTY,        \* stdin is a terminal
    rawMode,      \* the terminal is in raw mode
    prompted,     \* prompts opened so far
    sigpc,        \* "loading", "idle", "prompting", "handling", "exited"
    signal,       \* the signal being handled
    steps,        \* history: what the listeners did
    exitCode      \* the exit code, -1 while the process runs

signalVars ==
    <<loaded, listeners, isTTY, rawMode, prompted, sigpc, signal, steps, exitCode>>

NoListeners == [s \in Signals |-> <<>>]

\* no interrupt is followed
SignalIdle ==
    /\ loaded = <<>>
    /\ listeners = NoListeners
    /\ isTTY = TRUE
    /\ rawMode = FALSE
    /\ prompted = 0
    /\ sigpc = "NoSignals"
    /\ signal = "none"
    /\ steps = <<>>
    /\ exitCode = -1

\* ----------------------------------------------- the configuration commands
\* ~/.config/shellai/config.json as readConfig returns it; a missing or
\* unparsable file reads as InitialConfig.  providerConfigs holds the
\* providers that have a defaultModel.
InitialConfig ==
    [isInitialSetup |-> TRUE, defaultProvider |-> "none", providerConfigs |-> {}]

\* the keys getHiddenInput and the first-run password prompt let through
EnteredKeys == {apiKey \in Keys : Trim(apiKey) # <<>>}

\* config.setDefaultProvider(provider)
setDefaultProvider(config, provider) == [config EXCEPT !.defaultProvider = provider]

\* config.setDefaultModel(provider, model)
setDefaultModel(config, provider) ==
    [config EXCEPT !.providerConfigs = @ \cup {provider}]

\* config.completeInitialSetup()
completeInitialSetup(config) == [config EXCEPT !.isInitialSetup = FALSE]

\* credentials.saveCredentials(provider, apiKey) as one step, with the n-th
\* draw of random bytes
saveCredentials(f, provider, apiKey, n) ==
    Store(WithRecord(readCredentialsData(f), provider, Encrypted[apiKey, n]))

VARIABLES
    appConfig,    \* what config.json holds
    configOp      \* history: the last configuration command and how it ended

configVars == <<appConfig, configOp>>

NoConfigOp == [op |-> "none", provider |-> "none", ended |-> "none"]

\* no configuration command is followed
ConfigIdle ==
    /\ appConfig = InitialConfig
    /\ configOp = NoConfigOp

\* ------------------------------------------------------------ the chat session
\* how many streamChat calls a chat session makes
MaxTurns == 3

\* how many fragments a reply is streamed in
MaxChunks == 2

M_hello == <<"h", "e", "l", "l", "o">>

M_pad_hi == <<" ", "h", "i">>

M_exit == <<"e", "x", "i", "t">>

M_Exit == <<"E", "x", "i", "t">>

M_blank == <<" ", " ">>

\* the initial message of the command line, Undefined when none was given
InitialMessages == {Undefined, <<>>, M_blank, M_hello, M_exit}

\* what the text prompt returns: a non-blank line, or nothing when cancelled
PromptInputs == {<<>>, M_hello, M_pad_hi, M_exit, M_Exit}

\* what the service yields
Chunks == {<<>>, <<"H", "i">>}

toLowerCase(s) == [i \in 1..Len(s) |-> IF s[i] = "E" THEN "e" ELSE s[i]]

\* mutant: the message takes the place of the newest one
Push_overwrite(list, role, content) ==
    IF list = <<>> THEN <<[role |-> role, content |-> content]>>
    ELSE [list EXCEPT ![Len(list)] = [role |-> role, content |-> content]]

\* messages.push({ role, content })
Push(list, role, content) == Append(list, [role |-> role, content |-> content])

VARIABLES
    chatpc,        \* "starting", "prompting", "streaming", "exit0", "exit1"
    chatMessages,      \* the messages array of chat
    chatResponse,  \* streamResponse's accumulator
    received,        \* fragments received in the running call
    calls,         \* history: the messages each streamChat call was given
    replies,       \* history: what each streamResponse call returned
    inputs         \* history: the user message that led to each call

chatVars == <<chatpc, chatMessages, chatResponse, received, calls, replies, inputs>>

\* no chat session is followed
ChatIdle ==
    /\ chatpc = "NoChat"
    /\ chatMessages = <<>>
    /\ chatResponse = <<>>
    /\ received = 0
    /\ calls = <<>>
    /\ replies = <<>>
    /\ inputs = <<>>

\* ---------------------------------------------------------------- the session
maxAttempts == 3

\* the four generation commands that end in an execution:
\*   "gen"    generateCommand with its own confirm/edit prompts and its own spawn
\*   "shell"  generateCommand built on the shared command executor
\*   "git"    generateGitCommand
\*   "script" generateScript
Flows == {"gen", "shell", "git", "script"}

ScriptTypes == {"bash", "python", "node"}

\* what the provider may stream for a generation request, as fragment sequences
Replies ==
    { <<F_ls_, F_la>>,
      <<T_rm_tmp>>,
      <<F_sudo_rm, F_rf_root>>,
      <<F_git_nl, F_status_sp>>,
      <<T_git_log_pipe>> }

\* what the provider may stream for a correction request, besides echoing the
\* failed command
CorrectionReplies ==
    { <<F_ls_, F_la>>,
      <<F_git_nl, F_status_sp>>,
      <<T_rm_tmp>> }

\* what the user may type at an edit prompt
EditInputs == {E_two_spaces, E_pipe, T_rmdir, <<>>}

\* what a failed child leaves in the rejected Error's message
ExitMessages == {"stderr_a", "exit_code"}

\* what the invocation finds configured: a provider (the --provider option or
\* the default provider), what getCredentials gives for it, a default model
Settings == [provider : BOOLEAN, apiKey : {"value", "absent", "raised"}, model : BOOLEAN]

VARIABLES
    flow,          \* which generation command runs
    settings,      \* the provider, key and model the invocation finds
    dryRun,        \* options.dryRun
    scriptType,    \* options.type of generateScript
    envShell,      \* process.env.SHELL, Undefined when unset
    pc,            \* where the session is
    command,       \* the artifact of the review loop
    execCommand,   \* the command parameter of the running executeCommand frame
    attempts,      \* the attempts parameter of that frame
    corrected,     \* correctedCommand of that frame
    running,       \* child processes of the executor that have not exited
    tempDirs,      \* temporary directories of generateScript that exist
    warned,        \* the destructive warning was printed at the last review
    lastAction,    \* what the last confirmCommand returned
    surfaced,      \* the message of the error reported before exit(1)
    copied,        \* what was written to the clipboard program
    reviewPrompts, \* review menus shown
    reply,         \* history: the fragments the generation stream yielded
    requests,      \* history: the streamChat calls
    launched,      \* history: the spawn calls and their results
    corrections,   \* history: the corrections obtained and the user's answers
    edited,        \* history: what the last edit prompt returned, if any
    written        \* history: what was written to the script files

sessionVars ==
    <<flow, settings, dryRun, scriptType, envShell, pc, command, execCommand, attempts,
      corrected, running, tempDirs, warned, lastAction, surfaced, copied,
      reviewPrompts, reply, requests, launched, corrections, edited, written>>

\* the vault, the stream and the interrupts are followed on their own: a session
\* step leaves them alone
services == <<vaultVars, streamVars, signalVars, configVars, chatVars>>

vars == <<sessionVars, vaultVars, streamVars, signalVars, configVars, chatVars>>

\* what the invocation fixes: the command, its options, the environment
env == <<flow, settings, dryRun, scriptType, envShell>>

GenerateRequest == [kind |-> "generate", cmd |-> <<>>, err |-> "none"]

\* the user turn executeCommand sends: the failed command and its error text
CorrectionRequest(cmd, msg) == [kind |-> "correct", cmd |-> ToStr(cmd), err |-> msg]

Init ==
    /\ flow \in Flows
    /\ settings \in Settings
    /\ dryRun \in BOOLEAN
    /\ scriptType \in (IF flow = "script" THEN ScriptTypes ELSE {"bash"})
    /\ envShell \in {Undefined, P_zsh}
    /\ pc = "Configuring"
    /\ command = <<>>
    /\ execCommand = <<>>
    /\ attempts = 0
    /\ corrected = <<>>
    /\ running = 0
    /\ tempDirs = 0
    /\ warned = FALSE
    /\ lastAction = "none"
    /\ surfaced = "none"
    /\ copied = <<>>
    /\ reviewPrompts = 0
    /\ reply = <<>>
    /\ requests = <<>>
    /\ launched = <<>>
    /\ corrections = <<>>
    /\ edited = <<>>
    /\ written = <<>>
    /\ file = FileAbsent
    /\ VaultIdle
    /\ StreamIdle
    /\ SignalIdle
    /\ ConfigIdle
    /\ ChatIdle

\* ----------------------------------------------------------------- Configuring
\* mutant: a missing default model is not looked for
ConfigError_modelOptional(s) ==
    CASE ~s.provider -> "no_provider"
      [] s.apiKey = "absent" -> "no_api_key"
      [] s.apiKey = "raised" -> "vault_error"
      [] OTHER -> "none"

\* the three checks at the head of a generation command, in their order, and
\* the outer catch for what getCredentials throws; "none" when all pass
ConfigError(s) ==
    CASE ~s.provider -> "no_provider"
      [] s.apiKey = "absent" -> "no_api_key"
      [] s.apiKey = "raised" -> "vault_error"
      [] ~s.model -> "no_model"
      [] OTHER -> "none"

\* provider, key and model are looked up: process.exit(1) on the first one
\* missing, else the service is made and streamChat is called
Configure ==
    /\ pc = "Configuring"
    /\ IF ConfigError(settings) # "none"
       THEN /\ pc' = "Exit1"
            /\ surfaced' = ConfigError(settings)
            /\ UNCHANGED requests
       ELSE /\ pc' = "Generating"
            /\ requests' = <<GenerateRequest>>
            /\ UNCHANGED surfaced
    /\ UNCHANGED <<env, services, reply, command, execCommand, attempts,
                   corrected, running, tempDirs, warned, lastAction,
                   copied, reviewPrompts, launched, corrections, edited, written>>

\* ------------------------------------------------------------------ Generating
\* the text the review loop starts with
Artifact(fragments) ==
    IF flow = "script"
    THEN AssembleScript(scriptType, Concat(fragments))
    ELSE Normalize(Concat(fragments))

\* for await (const chunk of service.streamChat(...)) command += chunk; clean up
Generate ==
    /\ pc = "Generating"
    /\ \E fragments \in Replies :
          /\ reply' = fragments
          /\ command' = Artifact(fragments)
    /\ pc' = "Review"
    /\ UNCHANGED <<env, services, execCommand, attempts,
                   corrected, running, tempDirs, warned, lastAction, surfaced,
                   copied, reviewPrompts, requests, launched, corrections, edited, written>>

\* mutant: a failed generation request is made again
GenerateFail_retry ==
    /\ pc = "Generating"
    /\ Len(requests) < maxAttempts
    /\ requests' = Append(requests, GenerateRequest)
    /\ UNCHANGED <<env, services, reply, command, execCommand, pc, surfaced,
                   attempts, corrected, running, tempDirs, warned, lastAction,
                   copied, reviewPrompts, launched, corrections, edited, written>>

\* streamChat throws: the outer catch reports the error and exits 1
GenerateFail ==
    /\ pc = "Generating"
    /\ pc' = "Exit1"
    /\ surfaced' = "stream_error"
    /\ UNCHANGED <<env, services, reply, command, execCommand,
                   attempts, corrected, running, tempDirs, warned, lastAction,
                   copied, reviewPrompts, requests, launched, corrections, edited, written>>

\* ------------------------------------------------------------------- Reviewing
\* the destructive warning: only the confirmCommand of the "gen" flow has it
Warns(cmd) == flow = "gen" /\ isDangerous(cmd)

\* mutant: the menu is shown in a dry run too
ConfirmCommand_alwaysPrompts ==
    /\ pc = "Review"
    /\ pc' = "Prompt"
    /\ warned' = Warns(command)
    /\ reviewPrompts' = reviewPrompts + 1
    /\ UNCHANGED lastAction
    /\ UNCHANGED <<env, services, reply, command, execCommand,
                   attempts, corrected, running, tempDirs, surfaced, copied,
                   requests, launched, corrections, edited, written>>

\* confirmCommand up to its prompt: dry run returns "cancel" without prompting
ConfirmCommand ==
    /\ pc = "Review"
    /\ IF dryRun
       THEN /\ pc' = "Cancelled"
            /\ lastAction' = "cancel"
            /\ UNCHANGED <<warned, reviewPrompts>>
       ELSE /\ pc' = "Prompt"
            /\ warned' = Warns(command)
            /\ reviewPrompts' = reviewPrompts + 1
            /\ UNCHANGED lastAction
    /\ UNCHANGED <<env, services, reply, command, execCommand,
                   attempts, corrected, running, tempDirs, surfaced, copied,
                   requests, launched, corrections, edited, written>>

\* mutant: case "copy" ends in break, so the review loop goes on
ReviewCopy_break ==
    /\ pc = "Prompt"
    /\ reviewPrompts < MaxReviews
    /\ lastAction' = "copy"
    /\ copied' = IF command = Undefined THEN <<>> ELSE <<command>>
    /\ pc' = "Review"
    /\ UNCHANGED <<env, services, reply, command, execCommand,
                   attempts, corrected, running, tempDirs, warned, surfaced,
                   reviewPrompts, requests, launched, corrections, edited, written>>

\* case "copy": copyToClipboard(command); return
ReviewCopy ==
    /\ pc = "Prompt"
    /\ lastAction' = "copy"
    /\ copied' = IF command = Undefined THEN <<>> ELSE <<command>>
    /\ pc' = "Copied"
    /\ UNCHANGED <<env, services, reply, command, execCommand,
                   attempts, corrected, running, tempDirs, warned, surfaced,
                   reviewPrompts, requests, launched, corrections, edited, written>>

\* case "cancel": return
ReviewCancel ==
    /\ pc = "Prompt"
    /\ lastAction' = "cancel"
    /\ pc' = "Cancelled"
    /\ UNCHANGED <<env, services, reply, command, execCommand,
                   attempts, corrected, running, tempDirs, warned, surfaced,
                   copied, reviewPrompts, requests, launched, corrections, edited, written>>

\* case "edit": the edit prompt opens
ReviewEdit ==
    /\ pc = "Prompt"
    /\ reviewPrompts < MaxReviews
    /\ lastAction' = "edit"
    /\ pc' = "Editing"
    /\ UNCHANGED <<env, services, reply, command, execCommand,
                   attempts, corrected, running, tempDirs, warned, surfaced,
                   copied, reviewPrompts, requests, launched, corrections, edited, written>>

\* the menu is dismissed: response.value is undefined, no case of the switch
\* matches and the while (true) loop shows the menu again
ReviewDismiss ==
    /\ pc = "Prompt"
    /\ reviewPrompts < MaxReviews
    /\ lastAction' = "dismiss"
    /\ pc' = "Review"
    /\ UNCHANGED <<env, services, reply, command, execCommand,
                   attempts, corrected, running, tempDirs, warned, surfaced,
                   copied, reviewPrompts, requests, launched, corrections, edited, written>>

\* the edit prompt accepts a value: only the "gen" flow's prompt validates it
EditAccepts(value) == flow = "gen" => editValidate(value)

\* mutant: the value of the edit prompt is cleaned up like a generated reply
EditSubmit_normalized ==
    /\ pc = "Editing"
    /\ \E value \in EditInputs :
          /\ EditAccepts(value)
          /\ command' = Normalize(value)
          /\ edited' = <<value>>
    /\ pc' = "Review"
    /\ UNCHANGED <<env, services, reply, execCommand, attempts,
                   corrected, running, tempDirs, warned, lastAction, surfaced,
                   copied, reviewPrompts, requests, launched, corrections, written>>

\* command = await editCommand(command), a value submitted
EditSubmit ==
    /\ pc = "Editing"
    /\ \E value \in EditInputs :
          /\ EditAccepts(value)
          /\ command' = value
          /\ edited' = <<value>>
    /\ pc' = "Review"
    /\ UNCHANGED <<env, services, reply, execCommand, attempts,
                   corrected, running, tempDirs, warned, lastAction, surfaced,
                   copied, reviewPrompts, requests, launched, corrections, written>>

\* command = await editCommand(command), the prompt dismissed
EditDismiss ==
    /\ pc = "Editing"
    /\ command' = Undefined
    /\ edited' = <<Undefined>>
    /\ pc' = "Review"
    /\ UNCHANGED <<env, services, reply, execCommand, attempts,
                   corrected, running, tempDirs, warned, lastAction, surfaced,
                   copied, reviewPrompts, requests, launched, corrections, written>>

\* ------------------------------------------------------------------- Executing
\* /[&|;]/.test(command)
hasSpecialChars(cmd) == \E k \in 1..Len(ToStr(cmd)) : ToStr(cmd)[k] \in {"&", "|", ";"}

\* options of the executeCommand call of each flow
OptionsType == IF flow = "git" THEN "git" ELSE IF flow = "script" THEN "script" ELSE "shell"

OptionsSplitArgs == flow = "script"

\* mutant: a git command is always split into arguments
SpawnArguments_gitAlwaysSplit(cmd) ==
    IF OptionsType = "git"
    THEN [file |-> P_git, args |-> Tail(Split(cmd)), shell |-> FALSE]
    ELSE [file |-> IF OptionsSplitArgs THEN Split(cmd)[1] ELSE cmd,
          args |-> IF OptionsSplitArgs THEN Tail(Split(cmd)) ELSE <<>>,
          shell |-> OptionsType = "shell"]

\* the file, the argument list and the shell option executeCommand passes to spawn
SpawnArguments(cmd) ==
    IF OptionsType = "git"
    THEN IF hasSpecialChars(cmd)
         THEN [file |-> cmd, args |-> <<>>, shell |-> TRUE]
         ELSE [file |-> P_git, args |-> Tail(Split(cmd)), shell |-> FALSE]
    ELSE [file |-> IF OptionsSplitArgs THEN Split(cmd)[1] ELSE cmd,
          args |-> IF OptionsSplitArgs THEN Tail(Split(cmd)) ELSE <<>>,
          shell |-> OptionsType = "shell"]

\* the try block throws before a child exists: command.split on undefined, or
\* spawn's own check that the file is a non-empty string
SpawnThrows(cmd) ==
    IF OptionsType = "git"
    THEN cmd = Undefined
    ELSE \/ cmd = Undefined
         \/ (IF OptionsSplitArgs THEN Split(cmd)[1] ELSE cmd) = <<>>

NoChild(cmd) ==
    [cmd |-> cmd, file |-> Undefined, args |-> <<>>, shell |-> FALSE,
     spawned |-> FALSE, result |-> "spawn_threw"]

Child(cmd, a) ==
    [cmd |-> cmd, file |-> a.file, args |-> a.args, shell |-> a.shell,
     spawned |-> TRUE, result |-> "running"]

\* mutant: the bound is tested one attempt late
Catch_offByOne(cmd, att, msg) ==
    IF att >= maxAttempts
    THEN /\ pc' = "Failed"
         /\ surfaced' = msg
         /\ UNCHANGED requests
    ELSE /\ pc' = "Retrying"
         /\ requests' = Append(requests, CorrectionRequest(cmd, msg))
         /\ UNCHANGED surfaced

\* mutant: giving up throws a new error in place of the one caught
Catch_newError(cmd, att, msg) ==
    IF att >= maxAttempts - 1
    THEN /\ pc' = "Failed"
         /\ surfaced' = "giving_up"
         /\ UNCHANGED requests
    ELSE /\ pc' = "Retrying"
         /\ requests' = Append(requests, CorrectionRequest(cmd, msg))
         /\ UNCHANGED surfaced

\* the catch block of executeCommand, up to the streamChat call it makes
Catch(cmd, att, msg) ==
    IF att >= maxAttempts - 1
    THEN /\ pc' = "Failed"
         /\ surfaced' = msg
         /\ UNCHANGED requests
    ELSE /\ pc' = "Retrying"
         /\ requests' = Append(requests, CorrectionRequest(cmd, msg))
         /\ UNCHANGED surfaced

\* executeCommand(cmd, service, att, options), up to the await on the child
executeCommand(cmd, att) ==
    /\ execCommand' = cmd
    /\ attempts' = att
    /\ IF SpawnThrows(cmd)
       THEN /\ launched' = Append(launched, NoChild(cmd))
            /\ UNCHANGED running
            /\ Catch(cmd, att, "spawn_threw")
       ELSE /\ launched' = Append(launched, Child(cmd, SpawnArguments(cmd)))
            /\ running' = running + 1
            /\ pc' = "Executing"
            /\ UNCHANGED <<surfaced, requests>>

\* the shell a spawn call starts: with the option shell: true the runtime's
\* own choice, which on a POSIX system is /bin/sh whatever SHELL says; without
\* it the file itself, when the arguments are -c and a text; else none
spawnShell(a) ==
    IF a.shell THEN P_bin_sh
    ELSE IF Len(a.args) = 2 /\ a.args[1] = A_c THEN a.file
    ELSE Undefined

\* process.env.SHELL || "/bin/sh"
LegacyShell == IF envShell = Undefined THEN P_bin_sh ELSE envShell

\* mutant: a command that drew the destructive warning is not run
LegacyExecute_vetoDangerous ==
    /\ UNCHANGED <<execCommand, attempts, requests, tempDirs, written>>
    /\ IF isDangerous(command)
       THEN /\ pc' = "Cancelled"
            /\ UNCHANGED <<launched, running, surfaced>>
       ELSE \/ /\ launched' = Append(launched,
                     Child(command, [file |-> LegacyShell,
                                     args |-> <<A_c, ToStr(command)>>,
                                     shell |-> FALSE]))
               /\ running' = running + 1
               /\ pc' = "Executing"
               /\ UNCHANGED surfaced
            \/ /\ command = Undefined
               /\ pc' = "Exit1"
               /\ surfaced' = "spawn_threw"
               /\ UNCHANGED <<launched, running>>

\* case "execute" of the "gen" flow: spawn(shell, ["-c", command]).  With the
\* command undefined the runtime either rejects the argument or passes it on as
\* the string "undefined".
LegacyExecute ==
    /\ UNCHANGED <<execCommand, attempts, requests, tempDirs, written>>
    /\ \/ /\ launched' = Append(launched,
                Child(command, [file |-> LegacyShell, args |-> <<A_c, ToStr(command)>>,
                                shell |-> FALSE]))
          /\ running' = running + 1
          /\ pc' = "Executing"
          /\ UNCHANGED surfaced
       \/ /\ command = Undefined
          /\ pc' = "Exit1"
          /\ surfaced' = "spawn_threw"
          /\ UNCHANGED <<launched, running>>

\* case "execute" of generateScript: the script is written to a fresh temporary
\* directory and its path is what executeCommand runs
ScriptExecute ==
    /\ tempDirs' = tempDirs + 1
    /\ IF command = Undefined
       THEN /\ pc' = "Exit1"
            /\ surfaced' = "write_threw"
            /\ UNCHANGED <<execCommand, attempts, launched, running, requests, written>>
       ELSE /\ written' = Append(written, command)
            /\ executeCommand(scriptPath(scriptType), 0)

\* case "execute"
ReviewExecute ==
    /\ pc = "Prompt"
    /\ lastAction' = "execute"
    /\ CASE flow = "gen" -> LegacyExecute
         [] flow = "script" -> ScriptExecute
         [] OTHER -> executeCommand(command, 0) /\ UNCHANGED <<tempDirs, written>>
    /\ UNCHANGED <<env, services, reply, command, corrected, warned,
                   copied, reviewPrompts, corrections, edited>>

SetResult(r) == [launched EXCEPT ![Len(launched)].result = r]

\* child.on("exit") with code 0: every frame returns; generateScript removes
\* its temporary directory
ChildExitZero ==
    /\ pc = "Executing"
    /\ running' = running - 1
    /\ launched' = SetResult("exit0")
    /\ pc' = "Succeeded"
    /\ tempDirs' = IF flow = "script" THEN 0 ELSE tempDirs
    /\ UNCHANGED <<env, services, reply, command, execCommand,
                   attempts, corrected, warned, lastAction, surfaced, copied,
                   reviewPrompts, requests, corrections, edited, written>>

\* what follows a rejected child promise: the "gen" flow reports and exits,
\* executeCommand enters its catch block
Rejected(msg) ==
    IF flow = "gen"
    THEN /\ pc' = "Failed"
         /\ surfaced' = msg
         /\ UNCHANGED requests
    ELSE Catch(execCommand, attempts, msg)

\* child.on("exit") with a non-zero code
ChildExitNonZero ==
    /\ pc = "Executing"
    /\ running' = running - 1
    /\ \E msg \in (IF flow = "gen" THEN {"exit_code"} ELSE ExitMessages) :
          /\ launched' = SetResult(msg)
          /\ Rejected(msg)
    /\ UNCHANGED <<env, services, reply, command, execCommand,
                   attempts, corrected, tempDirs, warned, lastAction, copied,
                   reviewPrompts, corrections, edited, written>>

\* mutant: the rejection is acted on while the child is still running
ChildError_stillRunning ==
    /\ pc = "Executing"
    /\ UNCHANGED <<running, launched>>
    /\ Rejected("spawn_error")
    /\ UNCHANGED <<env, services, reply, command, execCommand,
                   attempts, corrected, tempDirs, warned, lastAction, copied,
                   reviewPrompts, corrections, edited, written>>

\* child.on("error"): the process could not be launched
ChildError ==
    /\ pc = "Executing"
    /\ running' = running - 1
    /\ launched' = SetResult("spawn_error")
    /\ Rejected("spawn_error")
    /\ UNCHANGED <<env, services, reply, command, execCommand,
                   attempts, corrected, tempDirs, warned, lastAction, copied,
                   reviewPrompts, corrections, edited, written>>

\* -------------------------------------------------------------------- Retrying
\* mutant: the correction is compared with the artifact of the review loop
noBetterSolution_artifact(correctedCommand, cmd) == correctedCommand = command

\* correctedCommand === command
noBetterSolution(correctedCommand, cmd) == correctedCommand = cmd

\* the correction has streamed in and is cleaned up; an unchanged command ends
\* the session, anything else is shown and the confirmation prompt opens
Correction ==
    /\ pc = "Retrying"
    /\ \E fragments \in CorrectionReplies \cup {<<ToStr(execCommand)>>} :
          LET correctedCommand == Normalize(Concat(fragments))
          IN  /\ corrected' = correctedCommand
              /\ IF noBetterSolution(correctedCommand, execCommand)
                 THEN /\ pc' = "Failed"
                      /\ surfaced' = "no_better_solution"
                      /\ corrections' = Append(corrections,
                            [failed |-> execCommand, corrected |-> correctedCommand,
                             answer |-> "none"])
                 ELSE /\ pc' = "ConfirmRetry"
                      /\ UNCHANGED surfaced
                      /\ corrections' = Append(corrections,
                            [failed |-> execCommand, corrected |-> correctedCommand,
                             answer |-> "asked"])
    /\ UNCHANGED <<env, services, reply, command, execCommand,
                   attempts, running, tempDirs, warned, lastAction, copied,
                   reviewPrompts, requests, launched, edited, written>>

\* mutant: the failed correction request is counted as an attempt
CorrectionFail_countsAttempt ==
    /\ pc = "Retrying"
    /\ pc' = "Failed"
    /\ surfaced' = "stream_error"
    /\ attempts' = attempts + 1
    /\ UNCHANGED <<env, services, reply, command, execCommand,
                   corrected, running, tempDirs, warned, lastAction,
                   copied, reviewPrompts, requests, launched, corrections, edited, written>>

\* streamChat throws while the correction streams: rethrown to the caller
CorrectionFail ==
    /\ pc = "Retrying"
    /\ pc' = "Failed"
    /\ surfaced' = "stream_error"
    /\ UNCHANGED <<env, services, reply, command, execCommand,
                   attempts, corrected, running, tempDirs, warned, lastAction,
                   copied, reviewPrompts, requests, launched, corrections, edited, written>>

SetAnswer(a) == [corrections EXCEPT ![Len(corrections)].answer = a]

\* response.value is true: executeCommand(correctedCommand, service, attempts + 1, options)
RetryAccept ==
    /\ pc = "ConfirmRetry"
    /\ corrections' = SetAnswer("yes")
    /\ executeCommand(corrected, attempts + 1)
    /\ UNCHANGED <<env, services, reply, command, corrected,
                   tempDirs, warned, lastAction, copied, reviewPrompts, edited, written>>

\* mutant: only an explicit false declines; anything else runs the correction
RetryDecline_runs ==
    /\ pc = "ConfirmRetry"
    /\ corrections' = SetAnswer("no")
    /\ executeCommand(corrected, attempts + 1)
    /\ UNCHANGED <<env, services, reply, command, corrected,
                   tempDirs, warned, lastAction, copied, reviewPrompts, edited, written>>

\* response.value is false or undefined: throw new Error("User cancelled retry")
RetryDecline ==
    /\ pc = "ConfirmRetry"
    /\ corrections' = SetAnswer("no")
    /\ pc' = "Failed"
    /\ surfaced' = "user_cancelled_retry"
    /\ UNCHANGED <<env, services, reply, command, execCommand,
                   attempts, corrected, running, tempDirs, warned, lastAction,
                   copied, reviewPrompts, requests, launched, edited, written>>

Next ==
    \/ Configure
    \/ Generate
    \/ GenerateFail
    \/ ConfirmCommand
    \/ ReviewExecute
    \/ ReviewCopy
    \/ ReviewEdit
    \/ ReviewCancel
    \/ ReviewDismiss
    \/ EditSubmit
    \/ EditDismiss
    \/ ChildExitZero
    \/ ChildExitNonZero
    \/ ChildError
    \/ Correction
    \/ CorrectionFail
    \/ RetryAccept
    \/ RetryDecline

Spec == Init /\ [][Next]_vars

\* ------------------------------------------------------- the vault on its own
\* no generation session runs while the vault is followed
NoSession ==
    /\ flow = "gen"
    /\ settings = [provider |-> FALSE, apiKey |-> "absent", model |-> FALSE]
    /\ dryRun = FALSE
    /\ scriptType = "bash"
    /\ envShell = Undefined
    /\ pc = "NoSession"
    /\ command = <<>>
    /\ execCommand = <<>>
    /\ attempts = 0
    /\ corrected = <<>>
    /\ running = 0
    /\ tempDirs = 0
    /\ warned = FALSE
    /\ lastAction = "none"
    /\ surfaced = "none"
    /\ copied = <<>>
    /\ reviewPrompts = 0
    /\ reply = <<>>
    /\ requests = <<>>
    /\ launched = <<>>
    /\ corrections = <<>>
    /\ edited = <<>>
    /\ written = <<>>

\* the two invocations are alike: the lookups and listings of one stand for
\* those of either
Readers == {"first"}

VaultInit ==
    /\ NoSession
    /\ StreamIdle
    /\ SignalIdle
    /\ ConfigIdle
    /\ ChatIdle
    /\ file \in {FileAbsent, FileUnparsable, FileObject, Store(NoCredentials)}
    /\ VaultIdle

\* an invocation looks a key up: getCredentials and what the caller reports
Get(q, provider) ==
    /\ vpc[q] = "idle"
    /\ ops < MaxOps
    /\ LET got == getCredentials(file, provider)
       IN result' =
             [proc |-> q, op |-> "get", provider |-> provider, outcome |-> got.outcome,
              value |-> got.value, message |-> got.message,
              report |-> CallerReport(got), configured |-> <<>>, unconfigured |-> <<>>,
              lost |-> "none", lostRecord |-> NoRecord, replaced |-> NoRecord,
              wrote |-> NoCredentials]
    /\ ops' = ops + 1
    /\ UNCHANGED <<file, vpc, view, saved, damaged, raced, lastWriter>>
    /\ UNCHANGED <<sessionVars, streamVars, signalVars, configVars, chatVars>>

\* an invocation lists the providers
List(q) ==
    /\ vpc[q] = "idle"
    /\ ops < MaxOps
    /\ LET listed == listProviders(file)
       IN result' =
             [proc |-> q, op |-> "list", provider |-> "none", outcome |-> "done",
              value |-> <<>>, message |-> "none", report |-> "none",
              configured |-> listed.configured, unconfigured |-> listed.unconfigured,
              lost |-> "none", lostRecord |-> NoRecord, replaced |-> NoRecord,
              wrote |-> NoCredentials]
    /\ ops' = ops + 1
    /\ UNCHANGED <<file, vpc, view, saved, damaged, raced, lastWriter>>
    /\ UNCHANGED <<sessionVars, streamVars, signalVars, configVars, chatVars>>

\* saveCredentials up to its write: the file is read and the record of the
\* provider is set, in the data read, to a new encryption of the key
SaveRead(q, provider, apiKey) ==
    /\ vpc[q] = "idle"
    /\ ops < MaxOps
    /\ LET record == Encrypted[apiKey, ops + 1]
       IN view' = [view EXCEPT ![q] =
             [provider |-> provider, key |-> apiKey, seen |-> file,
              data |-> WithRecord(readCredentialsData(file), provider, record),
              record |-> record, lost |-> "none", lostRecord |-> NoRecord,
              damaged |-> damaged]]
    /\ vpc' = [vpc EXCEPT ![q] = "saving"]
    /\ ops' = ops + 1
    /\ UNCHANGED <<file, result, saved, damaged, raced, lastWriter>>
    /\ UNCHANGED <<sessionVars, streamVars, signalVars, configVars, chatVars>>

\* the record a save found for its provider when it read the file
Replaced(seen, provider) ==
    IF provider \in DOMAIN readCredentialsData(seen)
    THEN readCredentialsData(seen)[provider]
    ELSE NoRecord

\* mutant: the write merges the record into what the file holds now
SaveWrite_merge(q) ==
    /\ vpc[q] = "saving"
    /\ file' = Store(WithRecord(readCredentialsData(file), view[q].provider, view[q].record))
    /\ vpc' = [vpc EXCEPT ![q] = "idle"]
    /\ result' =
          [NoResult EXCEPT !.proc = q, !.op = "save", !.provider = view[q].provider,
                           !.outcome = "done", !.lost = view[q].lost,
                           !.lostRecord = view[q].lostRecord,
                           !.replaced = Replaced(view[q].seen, view[q].provider),
                           !.wrote = view[q].data]
    /\ saved' = [saved EXCEPT ![view[q].provider] = [known |-> TRUE, key |-> view[q].key]]
    /\ raced' = (raced \/ view[q].seen # file)
    /\ lastWriter' = q
    /\ view' = [r \in Procs |->
          IF r = q THEN NoView
          ELSE IF vpc[r] = "saving" /\ view[r].provider # view[q].provider
          THEN [view[r] EXCEPT !.lost = view[q].provider, !.lostRecord = view[q].record]
          ELSE view[r]]
    /\ damaged' = damaged \ {view[q].provider}
    /\ UNCHANGED ops
    /\ UNCHANGED <<sessionVars, streamVars, signalVars, configVars, chatVars>>

\* writeCredentialsData(data): the file becomes the data this call read, with
\* its record set.  An invocation that has read and not yet written is marked
\* with the update it is about to write over.
SaveWrite(q) ==
    /\ vpc[q] = "saving"
    /\ file' = Store(view[q].data)
    /\ vpc' = [vpc EXCEPT ![q] = "idle"]
    /\ result' =
          [NoResult EXCEPT !.proc = q, !.op = "save", !.provider = view[q].provider,
                           !.outcome = "done", !.lost = view[q].lost,
                           !.lostRecord = view[q].lostRecord,
                           !.replaced = Replaced(view[q].seen, view[q].provider),
                           !.wrote = view[q].data]
    /\ saved' = [saved EXCEPT ![view[q].provider] = [known |-> TRUE, key |-> view[q].key]]
    /\ raced' = (raced \/ view[q].seen # file)
    /\ lastWriter' = q
    /\ view' = [r \in Procs |->
          IF r = q THEN NoView
          ELSE IF vpc[r] = "saving" /\ view[r].provider # view[q].provider
          THEN [view[r] EXCEPT !.lost = view[q].provider, !.lostRecord = view[q].record]
          ELSE view[r]]
    /\ damaged' = view[q].damaged \ {view[q].provider}
    /\ UNCHANGED ops
    /\ UNCHANGED <<sessionVars, streamVars, signalVars, configVars, chatVars>>

\* the file is changed from outside: a stored record is damaged
Corrupt(provider, how) ==
    /\ ops < MaxOps
    /\ damaged = {}
    /\ file.kind = "store"
    /\ provider \in DOMAIN file.credentials
    /\ file' = Store([file.credentials EXCEPT ![provider] = Tamper(@, how)])
    /\ damaged' = {provider}
    /\ lastWriter' = "outside"
    /\ ops' = ops + 1
    /\ UNCHANGED <<vpc, view, result, saved, raced>>
    /\ UNCHANGED <<sessionVars, streamVars, signalVars, configVars, chatVars>>

VaultNext ==
    \/ \E q \in Readers, provider \in Providers : Get(q, provider)
    \/ \E q \in Readers : List(q)
    \/ \E q \in Procs, provider \in Providers, apiKey \in Keys : SaveRead(q, provider, apiKey)
    \/ \E q \in Procs : SaveWrite(q)
    \/ \E provider \in Providers, how \in Tamperings : Corrupt(provider, how)

VaultSpec == VaultInit /\ [][VaultNext]_vars

\* ------------------------------------------------------ the stream on its own
StreamInit ==
    /\ NoSession
    /\ file = FileAbsent
    /\ VaultIdle
    /\ SignalIdle
    /\ ConfigIdle
    /\ ChatIdle
    /\ service \in Identities
    /\ clients = initializeClient(service)
    /\ messages \in Conversations
    /\ consumer \in Consumers
    /\ spc = "idle"
    /\ request = <<>>
    /\ transport = 0
    /\ cause = NoError
    /\ thrown = NoError
    /\ events = <<>>
    /\ yielded = <<>>
    /\ fullResponse = <<>>

\* mutant: each fragment is put in front of the reply built so far
AppendChunks_prepend(sofar, chunks) ==
    IF chunks = <<>> THEN sofar ELSE chunks[1] \o sofar

\* the body of a consumer's loop, for the fragments one event yields:
\* command += chunk, correctedCommand += chunk, fullResponse += chunk
AppendChunks(sofar, chunks) ==
    IF chunks = <<>> THEN sofar ELSE sofar \o chunks[1]

\* streamChat starts.  switch (this.provider): no case for the identity, the
\* generator returns; the case's client missing, it throws; otherwise the
\* conversation is adapted and the one request is made
Send ==
    /\ spc = "idle"
    /\ CASE service \notin Providers ->
              /\ spc' = "done"
              /\ UNCHANGED <<request, transport, thrown>>
         [] service \notin clients ->
              /\ spc' = "failed"
              /\ thrown' = Rethrow(NotInitialized(service))
              /\ UNCHANGED <<request, transport>>
         [] OTHER ->
              /\ request' = Adapt(service, messages)
              /\ transport' = transport + 1
              /\ spc' = "streaming"
              /\ UNCHANGED thrown
    /\ UNCHANGED <<service, clients, messages, consumer, cause, events, yielded, fullResponse>>
    /\ UNCHANGED <<sessionVars, vaultVars, signalVars, configVars, chatVars>>

\* the next transport event arrives; what it yields reaches the consumer
Receive ==
    /\ spc = "streaming"
    /\ Len(events) < MaxEvents
    /\ \E e \in TransportEvents(service) :
          /\ events' = Append(events, e)
          /\ yielded' = yielded \o Yield(service, e)
          /\ fullResponse' = AppendChunks(fullResponse, Yield(service, e))
    /\ UNCHANGED <<service, clients, messages, consumer, spc, request, transport, cause, thrown>>
    /\ UNCHANGED <<sessionVars, vaultVars, signalVars, configVars, chatVars>>

\* the transport ends the stream: the loops end and the consumer has its reply
StreamEnd ==
    /\ spc = "streaming"
    /\ spc' = "done"
    /\ UNCHANGED <<service, clients, messages, consumer, request, transport, cause, thrown,
                   events, yielded, fullResponse>>
    /\ UNCHANGED <<sessionVars, vaultVars, signalVars, configVars, chatVars>>

\* mutant: a failed request is made again
StreamThrow_retry ==
    /\ spc = "streaming"
    /\ transport < 2
    /\ \E error \in TransportFailures : cause' = error
    /\ transport' = transport + 1
    /\ UNCHANGED <<service, clients, messages, consumer, spc, request, thrown,
                   events, yielded, fullResponse>>
    /\ UNCHANGED <<sessionVars, vaultVars, signalVars, configVars, chatVars>>

\* the transport fails, at the request or at a later event: the catch block
\* rethrows and the consumer's loop is left
StreamThrow ==
    /\ spc = "streaming"
    /\ \E error \in TransportFailures :
          /\ cause' = error
          /\ thrown' = Rethrow(error)
    /\ spc' = "failed"
    /\ UNCHANGED <<service, clients, messages, consumer, request, transport,
                   events, yielded, fullResponse>>
    /\ UNCHANGED <<sessionVars, vaultVars, signalVars, configVars, chatVars>>

StreamNext ==
    \/ Send
    \/ Receive
    \/ StreamEnd
    \/ StreamThrow

StreamSpec == StreamInit /\ [][StreamNext]_vars

\* --------------------------------------------------- the interrupts on their own
SignalInit ==
    /\ NoSession
    /\ file = FileAbsent
    /\ VaultIdle
    /\ StreamIdle
    /\ ConfigIdle
    /\ ChatIdle
    /\ loaded = <<>>
    /\ listeners = NoListeners
    /\ isTTY \in BOOLEAN
    /\ rawMode = FALSE
    /\ prompted = 0
    /\ sigpc = "loading"
    /\ signal = "none"
    /\ steps = <<>>
    /\ exitCode = -1

\* the next module is evaluated and registers its listeners
LoadModule ==
    /\ sigpc = "loading"
    /\ LET module == ImportOrder[Len(loaded) + 1]
       IN /\ loaded' = Append(loaded, module)
          /\ listeners' = Register(listeners, module)
          /\ sigpc' = IF Len(loaded) + 1 = Len(ImportOrder) THEN "idle" ELSE "loading"
    /\ UNCHANGED <<isTTY, rawMode, prompted, signal, steps, exitCode>>
    /\ UNCHANGED <<sessionVars, vaultVars, streamVars, configVars, chatVars>>

\* a prompt opens: on a terminal it reads the keys in raw mode
OpenPrompt ==
    /\ sigpc = "idle"
    /\ prompted < MaxPrompts
    /\ prompted' = prompted + 1
    /\ rawMode' = isTTY
    /\ sigpc' = "prompting"
    /\ UNCHANGED <<loaded, listeners, isTTY, signal, steps, exitCode>>
    /\ UNCHANGED <<sessionVars, vaultVars, streamVars, configVars, chatVars>>

\* the prompt is answered or dismissed and gives the terminal back
ClosePrompt ==
    /\ sigpc = "prompting"
    /\ rawMode' = FALSE
    /\ sigpc' = "idle"
    /\ UNCHANGED <<loaded, listeners, isTTY, prompted, signal, steps, exitCode>>
    /\ UNCHANGED <<sessionVars, vaultVars, streamVars, configVars, chatVars>>

\* the command returns and the process ends
Return ==
    /\ sigpc = "idle"
    /\ sigpc' = "exited"
    /\ exitCode' = 0
    /\ UNCHANGED <<loaded, listeners, isTTY, rawMode, prompted, signal, steps>>
    /\ UNCHANGED <<sessionVars, vaultVars, streamVars, configVars, chatVars>>

\* a signal arrives: without a listener it ends the process, else the
\* listeners are called
Interrupt ==
    /\ sigpc \in {"loading", "idle", "prompting"}
    /\ \E s \in Signals :
          /\ signal' = s
          /\ IF listeners[s] = <<>>
             THEN /\ sigpc' = "exited"
                  /\ exitCode' = IF s = "SIGINT" THEN 130 ELSE 143
             ELSE /\ sigpc' = "handling"
                  /\ UNCHANGED exitCode
    /\ UNCHANGED <<loaded, listeners, isTTY, rawMode, prompted, steps>>
    /\ UNCHANGED <<sessionVars, vaultVars, streamVars, configVars, chatVars>>

\* the effect of the steps of a listener: the first exit or throw ends the
\* process and nothing after it runs
RECURSIVE Run(_, _)
Run(todo, st) ==
    IF todo = <<>> \/ st.code # -1 THEN st
    ELSE Run(Tail(todo),
             [raw |-> IF Head(todo) = "setRawMode" THEN FALSE ELSE st.raw,
              code |-> CASE Head(todo) = "exit0" -> 0
                         [] Head(todo) = "throw" -> 1
                         [] OTHER -> -1,
              done |-> Append(st.done, Head(todo))])

\* emit(signal): the listeners are called in the order they were registered,
\* each after the other, as long as the process lives
Emit ==
    /\ sigpc = "handling"
    /\ LET todo == Concat([i \in DOMAIN listeners[signal] |->
                              Listener(listeners[signal][i], isTTY)])
           end == Run(todo, [raw |-> rawMode, code |-> -1, done |-> <<>>])
       IN /\ rawMode' = end.raw
          /\ steps' = end.done
          /\ exitCode' = end.code
          /\ sigpc' = IF end.code = -1 THEN "idle" ELSE "exited"
    /\ UNCHANGED <<loaded, listeners, isTTY, prompted, signal>>
    /\ UNCHANGED <<sessionVars, vaultVars, streamVars, configVars, chatVars>>

SignalNext ==
    \/ LoadModule
    \/ OpenPrompt
    \/ ClosePrompt
    \/ Return
    \/ Interrupt
    \/ Emit

SignalSpec == SignalInit /\ [][SignalNext]_vars

\* ----------------------------------------------- the configuration commands
\* the commands run one after the other; the vault's own bookkeeping is left
\* alone, the file and the count of random draws are shared with it
ConfigInit ==
    /\ NoSession
    /\ StreamIdle
    /\ SignalIdle
    /\ ChatIdle
    /\ VaultIdle
    /\ file = FileAbsent
    /\ ConfigIdle

ConfigFrame ==
    /\ UNCHANGED <<vpc, view, result, saved, damaged, raced, lastWriter>>
    /\ UNCHANGED <<sessionVars, streamVars, signalVars, chatVars>>

\* what the user does at a select or password prompt besides answering
Cancelled == "cancelled"

\* how selectModel ends: a model is chosen, the prompt is cancelled
\* (process.exit(0)), or getProviderModels throws
ModelOutcomes == {"chosen", "cancelled", "failed"}

\* the "set a specific model?" confirm prompt and selectModel after it
ModelAnswers == {"declined"} \cup ModelOutcomes

Ended(op, provider, how) == [op |-> op, provider |-> provider, ended |-> how]

\* configureProvider(initialProvider) with the provider argument given
ConfigureProvider(initialProvider, apiKey, model) ==
    /\ ops < MaxOps
    /\ LET action == IF Includes(listProviders(file).configured, initialProvider)
                     THEN "update" ELSE "set"
           stored == saveCredentials(file, initialProvider, apiKey, ops + 1)
           withModel == IF model = "chosen"
                        THEN setDefaultModel(appConfig, initialProvider)
                        ELSE appConfig
       IN IF apiKey = <<>>
          THEN /\ configOp' = Ended("config", initialProvider, "exit0")
               /\ UNCHANGED <<file, ops, appConfig>>
          ELSE /\ file' = stored
               /\ ops' = ops + 1
               /\ IF action = "update"
                  THEN /\ configOp' = Ended("config", initialProvider, "updated")
                       /\ UNCHANGED appConfig
                  ELSE IF model \in {"cancelled", "failed"}
                  THEN /\ configOp' = Ended("config", initialProvider,
                                            IF model = "failed" THEN "exit1" ELSE "exit0")
                       /\ UNCHANGED appConfig
                  ELSE /\ configOp' = Ended("config", initialProvider, "set")
                       /\ appConfig' =
                             IF withModel.defaultProvider = "none"
                             THEN setDefaultProvider(withModel, initialProvider)
                             ELSE withModel
    /\ ConfigFrame

\* configureProvider() with "Switch Provider" chosen: handleSwitchProvider
SwitchProvider(choice, model) ==
    /\ LET configured == listProviders(file).configured
       IN IF configured = <<>>
          THEN /\ choice = Cancelled
               /\ configOp' = Ended("switch-provider", "none", "nothing_configured")
               /\ UNCHANGED appConfig
          ELSE /\ choice = Cancelled \/ Includes(configured, choice)
               /\ IF choice = Cancelled
                  THEN /\ configOp' = Ended("switch-provider", "none", "cancelled")
                       /\ UNCHANGED appConfig
                  ELSE IF choice = appConfig.defaultProvider
                  THEN /\ configOp' = Ended("switch-provider", choice, "already")
                       /\ UNCHANGED appConfig
                  ELSE /\ appConfig' =
                             IF model = "chosen"
                             THEN setDefaultModel(setDefaultProvider(appConfig, choice), choice)
                             ELSE setDefaultProvider(appConfig, choice)
                       /\ configOp' = Ended("switch-provider", choice,
                                            CASE model = "failed" -> "exit1"
                                              [] model = "cancelled" -> "exit0"
                                              [] OTHER -> "switched")
    /\ UNCHANGED <<file, ops>>
    /\ ConfigFrame

\* configureProvider() with "Switch Model" chosen: handleSwitchModel
SwitchModel(model) ==
    /\ model \in ModelOutcomes
    /\ LET defaultProvider == appConfig.defaultProvider
       IN IF defaultProvider = "none"
          THEN /\ configOp' = Ended("switch-model", "none", "no_default")
               /\ UNCHANGED appConfig
          ELSE IF getCredentials(file, defaultProvider).outcome = "absent"
          THEN /\ configOp' = Ended("switch-model", defaultProvider, "no_credentials")
               /\ UNCHANGED appConfig
          ELSE /\ appConfig' = IF model = "chosen"
                               THEN setDefaultModel(appConfig, defaultProvider)
                               ELSE appConfig
               /\ configOp' = Ended("switch-model", defaultProvider,
                                    CASE model = "failed" -> "exit1"
                                      [] model = "cancelled" -> "exit0"
                                      [] OTHER -> "switched")
    /\ UNCHANGED <<file, ops>>
    /\ ConfigFrame

\* configureProvider() with "Manage API Keys" chosen: handleManageAPIKeys
ManageAPIKeys(provider, apiKey, model) ==
    /\ ops < MaxOps
    /\ LET action == IF Includes(listProviders(file).configured, provider)
                     THEN "update" ELSE "set"
           withDefault == IF appConfig.defaultProvider = "none"
                          THEN setDefaultProvider(appConfig, provider)
                          ELSE appConfig
       IN IF provider = Cancelled \/ apiKey = <<>>
          THEN /\ configOp' = Ended("api-keys", provider, "exit0")
               /\ UNCHANGED <<file, ops, appConfig>>
          ELSE /\ file' = saveCredentials(file, provider, apiKey, ops + 1)
               /\ ops' = ops + 1
               /\ IF action = "update"
                  THEN /\ configOp' = Ended("api-keys", provider, "updated")
                       /\ UNCHANGED appConfig
                  ELSE /\ appConfig' = IF model = "chosen"
                                       THEN setDefaultModel(withDefault, provider)
                                       ELSE withDefault
                       /\ configOp' = Ended("api-keys", provider,
                                            CASE model = "failed" -> "exit1"
                                              [] model = "cancelled" -> "exit0"
                                              [] OTHER -> "set")
    /\ ConfigFrame

\* the default command on a first run: a provider and its key are asked for,
\* the key is saved, the provider is made the default, a model is offered
FirstRunSetup(provider, apiKey, model) ==
    /\ appConfig.isInitialSetup
    /\ ops < MaxOps
    /\ model \in {"chosen", "declined", "failed"}
    /\ IF provider = Cancelled \/ apiKey = <<>>
       THEN /\ configOp' = Ended("first-run", provider, "exit0")
            /\ UNCHANGED <<file, ops, appConfig>>
       ELSE /\ file' = saveCredentials(file, provider, apiKey, ops + 1)
            /\ ops' = ops + 1
            /\ LET withDefault == setDefaultProvider(appConfig, provider)
               IN IF model = "failed"
                  THEN /\ appConfig' = withDefault
                       /\ configOp' = Ended("first-run", provider, "exit1")
                  ELSE /\ appConfig' =
                             completeInitialSetup(
                                IF model = "chosen"
                                THEN setDefaultModel(withDefault, provider)
                                ELSE withDefault)
                       /\ configOp' = Ended("first-run", provider, "complete")
    /\ ConfigFrame

\* the default command after the first run, without --provider: with several
\* providers configured and no default, one is picked and may be made the
\* default
PickProvider(choice, setDefault) ==
    /\ ~appConfig.isInitialSetup
    /\ LET configured == listProviders(file).configured
       IN IF configured = <<>>
          THEN /\ choice = Cancelled
               /\ configOp' = Ended("message", "none", "exit1")
               /\ UNCHANGED appConfig
          ELSE IF appConfig.defaultProvider # "none" \/ Len(configured) = 1
          THEN /\ choice = Cancelled
               /\ configOp' = Ended("message",
                                    IF appConfig.defaultProvider # "none"
                                    THEN appConfig.defaultProvider ELSE configured[1],
                                    "selected")
               /\ UNCHANGED appConfig
          ELSE /\ choice = Cancelled \/ Includes(configured, choice)
               /\ IF choice = Cancelled
                  THEN /\ configOp' = Ended("message", "none", "exit0")
                       /\ UNCHANGED appConfig
                  ELSE /\ configOp' = Ended("message", choice, "selected")
                       /\ appConfig' = IF setDefault
                                       THEN setDefaultProvider(appConfig, choice)
                                       ELSE appConfig
    /\ UNCHANGED <<file, ops>>
    /\ ConfigFrame

ConfigNext ==
    \/ \E initialProvider \in Identities, apiKey \in EnteredKeys \cup {<<>>},
          model \in ModelAnswers : ConfigureProvider(initialProvider, apiKey, model)
    \/ \E choice \in Providers \cup {Cancelled}, model \in ModelAnswers :
          SwitchProvider(choice, model)
    \/ \E model \in ModelOutcomes : SwitchModel(model)
    \/ \E provider \in Providers \cup {Cancelled}, apiKey \in EnteredKeys \cup {<<>>},
          model \in ModelAnswers : ManageAPIKeys(provider, apiKey, model)
    \/ \E provider \in Providers \cup {Cancelled}, apiKey \in EnteredKeys \cup {<<>>},
          model \in ModelAnswers : FirstRunSetup(provider, apiKey, model)
    \/ \E choice \in Providers \cup {Cancelled}, setDefault \in BOOLEAN :
          PickProvider(choice, setDefault)

ConfigSpec == ConfigInit /\ [][ConfigNext]_vars

\* ------------------------------------------------------------ the chat session
ChatInit ==
    /\ NoSession
    /\ file = FileAbsent
    /\ VaultIdle
    /\ StreamIdle
    /\ SignalIdle
    /\ ConfigIdle
    /\ chatpc = "starting"
    /\ chatMessages = <<>>
    /\ chatResponse = <<>>
    /\ received = 0
    /\ calls = <<>>
    /\ replies = <<>>
    /\ inputs = <<>>

ChatFrame == UNCHANGED <<sessionVars, vaultVars, streamVars, signalVars, configVars>>

\* streamResponse(service.streamChat(messages), ...) is entered
CallStreamChat(list, input) ==
    /\ chatMessages' = list
    /\ calls' = Append(calls, list)
    /\ inputs' = Append(inputs, input)
    /\ chatResponse' = <<>>
    /\ received' = 0
    /\ chatpc' = "streaming"
    /\ UNCHANGED replies

\* chat(initialProvider, initialMessage) up to its first streamChat call or
\* its first prompt
ChatStart(s, initialMessage) ==
    /\ chatpc = "starting"
    /\ IF ConfigError(s) # "none"
       THEN /\ chatpc' = "exit1"
            /\ UNCHANGED <<chatMessages, chatResponse, received, calls, replies, inputs>>
       ELSE IF initialMessage # Undefined /\ Trim(initialMessage) # <<>>
       THEN CallStreamChat(Push(chatMessages, "user", initialMessage), initialMessage)
       ELSE /\ chatpc' = "prompting"
            /\ UNCHANGED <<chatMessages, chatResponse, received, calls, replies, inputs>>
    /\ ChatFrame

\* the "You" prompt returns: the session ends on a cancel or on "exit" in any
\* case of letters, else the input is pushed and sent
ChatPrompt(userInput) ==
    /\ chatpc = "prompting"
    /\ IF userInput = <<>> \/ toLowerCase(userInput) = M_exit
       THEN /\ chatpc' = "exit0"
            /\ UNCHANGED <<chatMessages, chatResponse, received, calls, replies, inputs>>
       ELSE /\ Len(calls) < MaxTurns
            /\ CallStreamChat(Push(chatMessages, "user", userInput), userInput)
    /\ ChatFrame

\* the for-await loop of streamResponse takes a fragment
ChatChunk(chunk) ==
    /\ chatpc = "streaming"
    /\ received < MaxChunks
    /\ chatResponse' = chatResponse \o chunk
    /\ received' = received + 1
    /\ UNCHANGED <<chatpc, chatMessages, calls, replies, inputs>>
    /\ ChatFrame

\* the stream ends: streamResponse returns fullResponse and chat pushes it
ChatReply ==
    /\ chatpc = "streaming"
    /\ replies' = Append(replies, chatResponse)
    /\ chatMessages' = Push(chatMessages, "assistant", chatResponse)
    /\ chatpc' = "prompting"
    /\ UNCHANGED <<chatResponse, received, calls, inputs>>
    /\ ChatFrame

\* the stream throws: the error is printed and the process exits with 1
ChatFail ==
    /\ chatpc = "streaming"
    /\ chatpc' = "exit1"
    /\ UNCHANGED <<chatMessages, chatResponse, received, calls, replies, inputs>>
    /\ ChatFrame

ChatNext ==
    \/ \E s \in Settings, initialMessage \in InitialMessages : ChatStart(s, initialMessage)
    \/ \E userInput \in PromptInputs : ChatPrompt(userInput)
    \/ \E chunk \in Chunks : ChatChunk(chunk)
    \/ ChatReply
    \/ ChatFail

ChatSpec == ChatInit /\ [][ChatNext]_vars

\* ------------------------------------------------------------ what is checked
\* the session runs executeCommand (every flow but "gen", which spawns itself)
UsesExecutor == flow # "gen"

CorrectionRequests == Cardinality({i \in DOMAIN requests : requests[i].kind = "correct"})

FailedResult(r) == r \notin {"running", "exit0"}

\* C1  Retry bound: a session launches at most maxAttempts executions and sends
\* at most maxAttempts - 1 correction requests; when every execution fails,
\* every correction differs from the command that failed and the user accepts
\* every correction, the session ends Failed after exactly maxAttempts
\* executions.
C1_RetryBound ==
    /\ Len(launched) <= maxAttempts
    /\ CorrectionRequests <= maxAttempts - 1
    /\ ( /\ UsesExecutor
         /\ pc = "Failed"
         /\ surfaced # "stream_error"
         /\ \A i \in DOMAIN corrections :
               /\ corrections[i].corrected # corrections[i].failed
               /\ corrections[i].answer # "no" )
       => Len(launched) = maxAttempts
    /\ ( /\ Len(launched) = maxAttempts
         /\ FailedResult(launched[maxAttempts].result) )
       => pc = "Failed"

C1_Witness ==
    /\ flow = "shell"
    /\ pc = "Failed"
    /\ Len(launched) = maxAttempts
    /\ \A i \in 1..maxAttempts : launched[i].spawned /\ FailedResult(launched[i].result)
    /\ Len(corrections) = maxAttempts - 1
    /\ \A i \in DOMAIN corrections : corrections[i].answer = "yes"

\* C2  No-improvement short-circuit: once the cleaned-up correction equals the
\* command that just failed the session is Failed: that correction is the last
\* one, it was the only request made for that failure, no confirmation was
\* asked for it and no execution follows it.
C2_NoImprovement ==
    \A i \in DOMAIN corrections :
        corrections[i].corrected = corrections[i].failed
        => /\ pc = "Failed"
           /\ surfaced = "no_better_solution"
           /\ i = Len(corrections)
           /\ corrections[i].answer = "none"
           /\ Len(launched) = i
           /\ CorrectionRequests = i

C2_Witness ==
    /\ Len(corrections) = 2
    /\ corrections[2].corrected = corrections[2].failed
    /\ corrections[2].failed # command

\* C3  A correction is executed only after the user confirmed that correction:
\* every execution after the first runs the correction the user said yes to;
\* after a decline the session is Failed with no further execution and no
\* further request.
C3_ConfirmedRetry ==
    /\ \A i \in 2..Len(launched) :
          /\ (i - 1) \in DOMAIN corrections
          /\ corrections[i - 1].answer = "yes"
          /\ launched[i].cmd = corrections[i - 1].corrected
    /\ \A i \in DOMAIN corrections :
          corrections[i].answer = "no"
          => /\ pc = "Failed"
             /\ Len(launched) = i
             /\ Len(corrections) = i
             /\ CorrectionRequests = i

C3_Witness ==
    /\ Len(launched) = 2
    /\ Len(corrections) = 2
    /\ corrections[1].answer = "yes"
    /\ corrections[2].answer = "no"

\* C4  Blocklist veto: "sudo rm -rf /" is rejected before any process is
\* launched, whatever the user chooses, and "git status" is never rejected.
C4_BlocklistVeto ==
    /\ \A i \in DOMAIN launched : launched[i].cmd # T_sudo_rm_root
    /\ validateCommand(T_git_status)

\* C5  Only the blocklist can veto: whatever the destructive-pattern and the
\* syntax-plausibility checks say of the artifact under review, choosing execute
\* hands it to the executor (a script as the path of the file written from it).
C5_OnlyAnnotate ==
    [][ ( /\ pc = "Prompt"
          /\ pc' # "Prompt"
          /\ lastAction' = "execute"
          /\ command # Undefined )
        => /\ Len(launched') = Len(launched) + 1
           /\ launched'[Len(launched')].cmd =
                 (IF flow = "script" THEN scriptPath(scriptType) ELSE command) ]_vars

C5_Witness ==
    /\ flow = "gen"
    /\ warned
    /\ isDangerous(command)
    /\ Len(launched) = 1
    /\ launched[1].spawned
    /\ launched[1].cmd = command

\* C6  Destructive-pattern check: whenever the review menu is shown (not a dry
\* run) the destructive warning was printed if and only if the command holds
\* one of the destructive verbs as a whole word.
C6_DestructiveWarning ==
    pc = "Prompt" => (warned <=> isDangerous(command))

\* C7  Sequential attempts: at most one child of the executor is running, and
\* every execution but the newest has already exited or failed to launch.
C7_Sequential ==
    /\ running <= 1
    /\ running = Cardinality({i \in DOMAIN launched : launched[i].result = "running"})
    /\ \A i \in DOMAIN launched :
          i < Len(launched) => FailedResult(launched[i].result)

C7_Witness ==
    /\ Len(launched) = maxAttempts
    /\ launched[maxAttempts].result = "running"
    /\ running = 1

\* C8  Success path: the fragments "ls " and "-la" give the artifact "ls -la",
\* and when the first execution exits with code 0 the session is Succeeded
\* after one streamChat call and one execution, with no correction.
C8_SuccessPath ==
    /\ ( /\ reply = <<F_ls_, F_la>>
         /\ flow # "script"
         /\ reviewPrompts <= 1
         /\ lastAction # "edit"
         /\ pc # "Generating" )
       => command = T_ls_la
    /\ ( /\ Len(launched) >= 1
         /\ launched[1].result = "exit0" )
       => /\ pc = "Succeeded"
          /\ Len(launched) = 1
          /\ Len(requests) = 1
          /\ corrections = <<>>
          /\ running = 0

C8_Witness ==
    /\ reply = <<F_ls_, F_la>>
    /\ command = T_ls_la
    /\ lastAction = "execute"
    /\ reviewPrompts = 1
    /\ pc = "Succeeded"
    /\ launched[1].cmd = T_ls_la
    /\ launched[1].result = "exit0"

\* the session gave up after maxAttempts failed executions
Exhausted ==
    /\ UsesExecutor
    /\ Len(launched) = maxAttempts
    /\ FailedResult(launched[maxAttempts].result)

\* C9 as claimed: on exhausting maxAttempts the session is Failed and the error
\* surfaced is that of the first failed execution.
C9_FirstErrorSurfaced ==
    Exhausted => (pc = "Failed" /\ surfaced = launched[1].result)

\* C9 as amended: on exhausting maxAttempts the session is Failed and the error
\* surfaced is that of the last failed execution, rethrown as caught.
C9_LastErrorSurfaced ==
    Exhausted => (pc = "Failed" /\ surfaced = launched[maxAttempts].result)

C9_Witness ==
    /\ Exhausted
    /\ pc = "Failed"
    /\ launched[1].result # launched[maxAttempts].result

\* C10  copy and cancel are terminal: once either was chosen nothing has been
\* or will be launched, no request follows the generation request, and no
\* variable of the session changes any more (no further prompt).
C10_CopyCancelTerminal ==
    /\ [](lastAction \in {"copy", "cancel"}
          => /\ pc \in {"Copied", "Cancelled"}
             /\ launched = <<>>
             /\ running = 0
             /\ Len(requests) = 1)
    /\ [][(lastAction \in {"copy", "cancel"}) => UNCHANGED vars]_vars

C10_Witness ==
    /\ lastAction = "copy"
    /\ pc = "Copied"
    /\ reviewPrompts = 2
    /\ copied = <<command>>

\* the last edit prompt returned a text, not undefined
EditedText == edited # <<>> /\ edited[1] # Undefined

\* C11  Edit replaces the artifact wholesale and loops back to Reviewing: once
\* an edit prompt has returned text t the artifact is exactly t, the session is
\* back in the review loop, and the first execution launched afterwards and
\* what is copied afterwards are t (for a script: t is what is written to the
\* script file that is run), never an earlier value of the artifact.
C11_EditReplaces ==
    /\ EditedText => command = edited[1]
    /\ (lastAction = "edit" /\ pc # "Editing") => (edited # <<>> /\ pc \in {"Review", "Prompt"})
    /\ (EditedText /\ launched # <<>> /\ flow # "script") => launched[1].cmd = edited[1]
    /\ (EditedText /\ launched # <<>> /\ flow = "script")
          => (written = <<edited[1]>> /\ launched[1].cmd = scriptPath(scriptType))
    /\ (EditedText /\ copied # <<>>) => copied = <<edited[1]>>

C11_Witness ==
    /\ flow = "shell"
    /\ edited = <<E_two_spaces>>
    /\ Artifact(reply) # E_two_spaces
    /\ launched # <<>>
    /\ launched[1].cmd = E_two_spaces
    /\ launched[1].spawned

\* C12  Syntax-plausibility check on edits: a text an edit prompt returned as
\* the new artifact is non-empty, holds none of the shell metacharacters and
\* starts with a plausible bare command name.
C12_EditChecked == EditedText => editValidate(edited[1])

\* the provider's record is what a save wrote and nothing has changed it since
Intact(provider) == saved[provider].known /\ ~raced /\ provider \notin damaged

\* C13  Vault round-trip: for every provider and every key k, as long as the
\* last completed save for the provider stored k and no save raced with
\* another invocation and the record was not changed from outside,
\* getCredentials(provider) returns exactly k.
C13_RoundTrip ==
    \A provider \in Providers :
        Intact(provider) =>
            getCredentials(file, provider)
               = [outcome |-> "value", value |-> saved[provider].key, message |-> "none"]

C13_Witness ==
    /\ result.op = "get"
    /\ result.outcome = "value"
    /\ result.value = K_block
    /\ Intact(result.provider)
    /\ saved[result.provider].key = K_block
    /\ lastWriter = "second"

\* C14  Vault absence is not an error: for a provider no save was ever made
\* for, getCredentials returns absent and raises nothing, whatever the file is:
\* missing, unparsable, without a credentials member, or a store.
C14_AbsenceNotError ==
    \A provider \in Providers :
        ~saved[provider].known
           => getCredentials(file, provider)
                 = [outcome |-> "absent", value |-> <<>>, message |-> "none"]

C14_Witness ==
    /\ file.kind = "unparsable"
    /\ result.op = "get"
    /\ result.outcome = "absent"
    /\ ~saved[result.provider].known

\* C15  Vault decryption failure is distinct from absence: when the file holds
\* a record for the provider and decrypt throws on it, getCredentials raises
\* that error, and the caller reports the error's message, not a missing key;
\* no lookup of a provider that has a record returns absent.
C15_DecryptFailureRaises ==
    \A provider \in DOMAIN readCredentialsData(file) :
        LET record == readCredentialsData(file)[provider]
            got == getCredentials(file, provider)
        IN /\ got.outcome # "absent"
           /\ Decrypted[record].threw
                 => /\ got.outcome = "raised"
                    /\ got.message = Decrypted[record].message
                    /\ CallerReport(got) = got.message
                    /\ CallerReport(got) # "No API key found"

C15_Witness ==
    /\ result.op = "get"
    /\ result.provider \in damaged
    /\ result.outcome = "raised"
    /\ result.report = "bad decrypt"
    /\ lastWriter = "outside"

\* C16  listProviders partitions the closed provider set: whatever the file
\* holds, configured and unconfigured are disjoint, without repetition, cover
\* exactly anthropic, openai and gemini, and configured holds the providers
\* that have a record.
C16_ListPartition ==
    LET listed == listProviders(file)
        configured == {listed.configured[i] : i \in DOMAIN listed.configured}
        unconfigured == {listed.unconfigured[i] : i \in DOMAIN listed.unconfigured}
    IN /\ configured \cap unconfigured = {}
       /\ configured \cup unconfigured = {"anthropic", "openai", "gemini"}
       /\ Len(listed.configured) + Len(listed.unconfigured) = 3
       /\ configured = (IF file.kind = "store" THEN DOMAIN file.credentials ELSE {})

C16_Witness ==
    /\ result.op = "list"
    /\ result.configured = <<"anthropic", "gemini">>
    /\ result.unconfigured = <<"openai">>
    /\ file.kind = "store"
    /\ DOMAIN file.credentials = {"anthropic", "gemini"}

\* what encrypt can return: iv and cipher text of one encryption of one key
EncryptedRecords == {Encrypted[c] : c \in DOMAIN Encrypted}

\* C17  A credential record is only ever replaced wholesale: every record the
\* file holds, and every record a save is about to write, is the iv and the
\* cipher text of one encryption, unless it was changed from outside; right
\* after a save over an existing record the stored record is that save's one
\* new encryption and shares neither iv nor cipher text with the old record.
C17_WholesaleReplace ==
    /\ \A provider \in DOMAIN readCredentialsData(file) :
          provider \notin damaged => readCredentialsData(file)[provider] \in EncryptedRecords
    /\ \A q \in Procs :
          vpc[q] = "saving" =>
             /\ view[q].record \in EncryptedRecords
             /\ view[q].data[view[q].provider] = view[q].record
    /\ ( /\ result.op = "save"
         /\ lastWriter = result.proc
         /\ result.replaced # NoRecord )
       => LET now == file.credentials[result.provider]
          IN /\ now \in EncryptedRecords
             /\ now.iv # result.replaced.iv
             /\ now.encrypted # result.replaced.encrypted

C17_Witness ==
    /\ result.op = "save"
    /\ lastWriter = result.proc
    /\ result.replaced \in EncryptedRecords
    /\ ~raced
    /\ file.credentials[result.provider] \in EncryptedRecords
    /\ file.credentials[result.provider] # result.replaced

\* C18  Last writer wins: when a save of one invocation wrote between the read
\* and the write of a save another invocation made for a different provider,
\* then after that other save's write the file holds exactly the data it read
\* with its own record set, and the first save's record is not in the file.
C18_LastWriterWins ==
    ( /\ result.op = "save"
      /\ result.lost # "none"
      /\ lastWriter = result.proc )
    => /\ file = Store(result.wrote)
       /\ result.lost # result.provider
       /\ \/ result.lost \notin DOMAIN file.credentials
          \/ file.credentials[result.lost] # result.lostRecord

C18_Witness ==
    /\ result.op = "save"
    /\ result.proc = "second"
    /\ result.provider = "gemini"
    /\ result.lost = "openai"
    /\ lastWriter = "second"
    /\ saved["openai"].known
    /\ DOMAIN file.credentials = {"gemini"}
    /\ raced

\* the reply text the events received so far carry, in the order received
CarriedText == Concat([i \in DOMAIN events |-> events[i].text])

\* C19  Stream normalization: for each provider and every sequence of
\* transport events, the fragments streamChat has yielded, joined in order,
\* are the text the events carry, joined in order; no event yields more than
\* one fragment; and the reply every consumer builds is those fragments
\* appended in arrival order.
C19_StreamNormalized ==
    /\ Concat(yielded) = CarriedText
    /\ Len(yielded) <= Len(events)
    /\ fullResponse = Concat(yielded)

C19_Witness ==
    /\ service = "openai"
    /\ consumer = "streamResponse"
    /\ spc = "done"
    /\ Len(events) = 3
    /\ events[1].text = F_ls_
    /\ events[2].delta = "role"
    /\ events[3].text = F_la
    /\ yielded = <<F_ls_, F_la>>
    /\ fullResponse = T_ls_la

\* C20  Message adaptation: for each provider, once the request is made it
\* has one entry per message of the conversation, in the same order and with
\* the same content, the system messages among them; for gemini every entry
\* has the role user or model.
C20_MessageAdaptation ==
    (spc # "idle" /\ service \in Providers) =>
        /\ Len(request) = Len(messages)
        /\ \A i \in DOMAIN messages : request[i].content = messages[i].content
        /\ service = "gemini" => \A i \in DOMAIN request : request[i].role \in {"user", "model"}

C20_Witness ==
    /\ service = "gemini"
    /\ spc = "streaming"
    /\ messages = <<[role |-> "system", content |-> M_rules],
                    [role |-> "user", content |-> M_question]>>
    /\ request = <<[role |-> "model", content |-> M_rules],
                   [role |-> "user", content |-> M_question]>>

\* C21  No internal retry: a streamChat call makes at most one request to the
\* transport; while it streams and when it has ended, it has made exactly
\* one; and when the transport has failed the call has ended with an error
\* thrown to the caller, still with that one request.
C21_NoInternalRetry ==
    /\ transport <= 1
    /\ spc \in {"streaming", "done"} /\ service \in Providers => transport = 1
    /\ cause # NoError => (spc = "failed" /\ thrown # NoError /\ transport = 1)

C21_Witness ==
    /\ spc = "failed"
    /\ cause.id = "api_error"
    /\ transport = 1
    /\ Len(events) = 2
    /\ yielded = <<F_ls_>>

\* C22  A transport failure surfaces wrapped: the error the caller of
\* streamChat receives is a generic streaming error, another value than the
\* one the transport threw, and it holds that one as its cause.
C22_FailureWrapped ==
    cause # NoError =>
        /\ thrown.isError
        /\ thrown.id # cause.id
        /\ thrown.message = "Unknown error occurred while streaming chat"
        /\ thrown.cause = cause.id

\* C23  No client, no stream: a streamChat call on an instance whose
\* constructor initialised no client for its identity fails with the
\* configuration error, yields nothing and makes no request; it does not end
\* as a stream without fragments.
C23_NoClientFails ==
    (service \notin clients /\ spc # "idle") =>
        /\ spc = "failed"
        /\ thrown.isError
        /\ thrown.message \in {"Anthropic client not initialized",
                               "OpenAI client not initialized",
                               "Gemini client not initialized"}
        /\ yielded = <<>>
        /\ transport = 0

\* one of provider, key and model is missing, or the key cannot be read
Incomplete == ~settings.provider \/ settings.apiKey # "value" \/ ~settings.model

\* C24  Configuration errors are fatal and never retried: with no provider, no
\* key or no model, the one step the lookups take ends the invocation at exit
\* code 1 with the error reported, nothing follows it, and no streamChat call,
\* no review prompt and no execution was made; the lookups are never entered a
\* second time.
C24_ConfigErrorFatal ==
    /\ [](Incomplete /\ pc # "Configuring"
          => /\ pc = "Exit1"
             /\ surfaced \in {"no_provider", "no_api_key", "vault_error", "no_model"}
             /\ requests = <<>>
             /\ reply = <<>>
             /\ reviewPrompts = 0
             /\ launched = <<>>)
    /\ [][pc # "Configuring" => pc' # "Configuring"]_vars
    /\ [][(Incomplete /\ pc # "Configuring") => UNCHANGED vars]_vars

C24_Witness ==
    /\ settings = [provider |-> TRUE, apiKey |-> "value", model |-> FALSE]
    /\ pc = "Exit1"
    /\ surfaced = "no_model"
    /\ requests = <<>>

\* the generation stream failed and the outer catch ended the invocation
GenerationFailed == pc = "Exit1" /\ surfaced = "stream_error"

\* C25  A streamChat failure during plain generation is fatal: the step that
\* leaves Generating without a reply ends the invocation at exit code 1 with
\* the error reported; then there was the one generation request and no
\* correction request, no review prompt and no execution, and nothing follows.
C25_GenerationFailureFatal ==
    /\ [](GenerationFailed
          => /\ requests = <<GenerateRequest>>
             /\ reply = <<>>
             /\ reviewPrompts = 0
             /\ lastAction = "none"
             /\ launched = <<>>
             /\ corrections = <<>>)
    /\ [][(pc = "Generating" /\ pc' # "Review") => GenerationFailed']_vars
    /\ [][GenerationFailed => UNCHANGED vars]_vars

C25_Witness ==
    /\ GenerationFailed
    /\ flow = "script"
    /\ scriptType = "python"
    /\ tempDirs = 0
    /\ written = <<>>

\* C26  User cancellation is a normal terminal state: once cancel was chosen
\* at the review menu, or the menu or the edit prompt was dismissed, the
\* session has ended as cancelled: no prompt is open or about to open, nothing
\* was launched and the exit code is not 1.
C26_CancelTerminal ==
    (lastAction \in {"cancel", "dismiss"} \/ edited = <<Undefined>>)
        => /\ pc = "Cancelled"
           /\ launched = <<>>
           /\ running = 0
           /\ surfaced = "none"

\* C27  Interrupt releases the terminal first: when a SIGINT or SIGTERM that
\* has listeners has ended the process, cleanup() has run before the exit
\* (its setRawMode(false) is among the steps taken) and the terminal is not
\* left in raw mode.
C27_CleanupBeforeExit ==
    (sigpc = "exited" /\ signal \in Signals /\ listeners[signal] # <<>>)
        => /\ \E i \in DOMAIN steps : steps[i] = "setRawMode"
           /\ ~rawMode

\* C28  Script assembly: the script first presented for review is the
\* template of its kind with the placeholder replaced by the generated text,
\* character for character.
C28_ScriptVerbatim ==
    (flow = "script" /\ reply # <<>> /\ edited = <<>>) =>
        LET template == SCRIPT_TEMPLATES(scriptType)
        IN \E i \in 1..Len(template) :
              /\ LitAt(template, i, Placeholder)
              /\ command = SubSeq(template, 1, i - 1)
                              \o Concat(reply)
                              \o SubSeq(template, i + Len(Placeholder), Len(template))

RECURSIVE WordsOf(_, _)
\* the maximal runs of non-whitespace characters of a text, in order, with
\* `cur` the run being read
WordsOf(s, cur) ==
    IF s = <<>> THEN (IF cur = <<>> THEN <<>> ELSE <<cur>>)
    ELSE IF Head(s) \in WhiteSpace
         THEN (IF cur = <<>> THEN <<>> ELSE <<cur>>) \o WordsOf(Tail(s), <<>>)
         ELSE WordsOf(Tail(s), Append(cur, Head(s)))

RECURSIVE JoinWords(_)
\* the words with one space between neighbours
JoinWords(words) ==
    IF words = <<>> THEN <<>>
    ELSE IF Len(words) = 1 THEN words[1]
    ELSE words[1] \o <<" ">> \o JoinWords(Tail(words))

\* no whitespace at either end, and every whitespace character is one space
\* between two other characters
IsNormalized(s) ==
    \A i \in DOMAIN s :
        s[i] \in WhiteSpace =>
            /\ s[i] = " "
            /\ i > 1 /\ s[i - 1] \notin WhiteSpace
            /\ i < Len(s) /\ s[i + 1] \notin WhiteSpace

\* what normalizing the raw text must give
NormalOf(raw, s) ==
    /\ IsNormalized(s)
    /\ s = JoinWords(WordsOf(raw, <<>>))
    /\ Normalize(s) = s

\* C29  Whitespace normalization: the command first reviewed in a command
\* flow, and every correction obtained in Retrying, is the streamed text with
\* the whitespace at both ends gone and every whitespace run turned into one
\* space: the same words in the same order; and normalizing it again gives
\* the same text.
C29_Normalized ==
    /\ (flow # "script" /\ reply # <<>> /\ edited = <<>>) => NormalOf(Concat(reply), command)
    /\ \A i \in DOMAIN corrections :
          \E fragments \in CorrectionReplies \cup {<<ToStr(corrections[i].failed)>>} :
              NormalOf(Concat(fragments), corrections[i].corrected)

C29_Witness ==
    /\ flow = "git"
    /\ reply = <<F_git_nl, F_status_sp>>
    /\ Len(corrections) = 1
    /\ corrections[1].failed = T_git_status
    /\ corrections[1].corrected = T_ls_la
    /\ edited = <<>>
    /\ command = T_git_status

\* a program and its argument list, without a shell
SplitArgsMode(l, program) ==
    /\ ~l.shell
    /\ l.file = program
    /\ l.args = Tail(Split(ToStr(l.cmd)))

\* a shell is given the whole text as one argument: by spawn's shell option,
\* or as the -c argument of the shell the "gen" flow starts itself
ShellMode(l) ==
    \/ l.shell /\ l.file = ToStr(l.cmd) /\ l.args = <<>>
    \/ ~l.shell /\ l.file = LegacyShell /\ l.args = <<A_c, ToStr(l.cmd)>>

\* the text holds a control or pipe character
HasControlChars(text) == \E k \in DOMAIN text : text[k] \in {"&", "|", ";"}

\* C30  Launch policy by artifact kind: every child launched, for the artifact
\* and for each accepted correction alike, is started in split-args mode when
\* it is a script or a git command without control or pipe characters, and
\* in shell mode when it is a shell command or a git command that holds one.
C30_LaunchPolicy ==
    \A i \in DOMAIN launched :
        LET l == launched[i]
        IN l.spawned =>
              CASE flow = "script" -> SplitArgsMode(l, Split(l.cmd)[1])
                [] flow = "git" /\ ~HasControlChars(l.cmd) -> SplitArgsMode(l, P_git)
                [] OTHER -> ShellMode(l)

C30_Witness ==
    /\ flow = "git"
    /\ Len(launched) = 2
    /\ launched[1].cmd = T_git_log_pipe
    /\ launched[1].shell
    /\ launched[2].cmd = T_git_status
    /\ launched[2].file = P_git
    /\ launched[2].args = <<<<"s", "t", "a", "t", "u", "s">>>>
    /\ corrections[1].answer = "yes"

\* C31  The user's shell: every child started in shell mode runs under the
\* shell the SHELL variable names, or under /bin/sh when SHELL is unset.
C31_UserShell ==
    \A i \in DOMAIN launched :
        (launched[i].spawned /\ ShellMode(launched[i]))
            => spawnShell(launched[i]) = (IF envShell = Undefined THEN P_bin_sh ELSE envShell)

\* C32  Dry-run never executes: in a session with dryRun set no review menu
\* is ever shown, the review step gives cancel, and nothing is launched,
\* copied, edited or written and no correction is requested.
C32_DryRunNeverExecutes ==
    dryRun =>
        /\ reviewPrompts = 0
        /\ lastAction \in {"none", "cancel"}
        /\ pc \in {"Configuring", "Generating", "Review", "Cancelled", "Exit1"}
        /\ launched = <<>>
        /\ running = 0
        /\ copied = <<>>
        /\ edited = <<>>
        /\ written = <<>>
        /\ tempDirs = 0
        /\ corrections = <<>>
        /\ Len(requests) <= 1

C32_Witness ==
    /\ dryRun
    /\ flow = "shell"
    /\ command = T_sudo_rm_root
    /\ pc = "Cancelled"
    /\ lastAction = "cancel"
    /\ reviewPrompts = 0
    /\ launched = <<>>

\* the events a provider's loop yields for: a text delta of a content block
\* for anthropic, a first choice with a non-empty content for openai, a
\* non-empty text() for gemini
Yields(provider, e) ==
    CASE provider = "anthropic" -> e.type = "content_block_delta" /\ e.delta = "text_delta"
      [] provider = "openai" -> e.delta = "content" /\ e.text # <<>>
      [] OTHER -> e.text # <<>>

\* the fragments streamChat has yielded are the texts of the events it yields
\* for, one fragment an event, in the order received
FilteredAsStated ==
    LET kept == SelectSeq(events, LAMBDA e : Yields(service, e))
    IN yielded = [i \in DOMAIN kept |-> kept[i].text]

\* C33 as stated: per-provider filtering, and no provider ever yields an
\* empty fragment.
C33_NoEmptyFragment ==
    service \in Providers =>
        /\ FilteredAsStated
        /\ \A i \in DOMAIN yielded : yielded[i] # <<>>

\* C33  Per-provider fragment filtering: anthropic yields the text of every
\* content_block_delta event with a text_delta, also an empty one, and drops
\* every other event; openai yields a choice-delta's content only when it is
\* present and non-empty; gemini yields a chunk's text() only when it is
\* non-empty; openai and gemini never yield an empty fragment.
C33_FragmentFiltering ==
    service \in Providers =>
        /\ FilteredAsStated
        /\ service # "anthropic" => \A i \in DOMAIN yielded : yielded[i] # <<>>

C33_Witness ==
    /\ service = "anthropic"
    /\ Len(events) = 3
    /\ events[1].delta = "text_delta" /\ events[1].text = F_ls_
    /\ events[2].delta = "input_json_delta"
    /\ events[3].delta = "text_delta" /\ events[3].text = <<>>
    /\ yielded = <<F_ls_, <<>>>>

\* the stream of a correction request failed and executeCommand has thrown
CorrectionFailed == pc = "Failed" /\ surfaced = "stream_error"

\* C34  A streamChat failure in Retrying ends the session as Failed: the step
\* that fails leaves the attempt counter, the executions, the requests and the
\* corrections as they were and opens no prompt; afterwards every execution
\* has ended, each earlier correction was accepted and run, the failed request
\* is the last one, and nothing follows.
C34_CorrectionFailureFails ==
    /\ [](CorrectionFailed
          => /\ running = 0
             /\ Len(launched) = attempts + 1
             /\ Len(corrections) = attempts
             /\ CorrectionRequests = attempts + 1
             /\ requests[Len(requests)].kind = "correct"
             /\ \A i \in DOMAIN corrections : corrections[i].answer = "yes")
    /\ [][(pc = "Retrying" /\ CorrectionFailed')
             => UNCHANGED <<attempts, launched, requests, corrections, corrected,
                            reviewPrompts, running>>]_vars
    /\ [][CorrectionFailed => UNCHANGED vars]_vars

C34_Witness ==
    /\ CorrectionFailed
    /\ flow = "git"
    /\ attempts = 1
    /\ Len(launched) = 2
    /\ CorrectionRequests = 2

\* the provider has the same record, or none, in both files, and a lookup
\* gives the same
SameFor(provider, f, g) ==
    /\ provider \in DOMAIN readCredentialsData(f) <=> provider \in DOMAIN readCredentialsData(g)
    /\ provider \in DOMAIN readCredentialsData(f)
          => readCredentialsData(f)[provider] = readCredentialsData(g)[provider]
    /\ getCredentials(f, provider) = getCredentials(g, provider)

\* C35  saveCredentials changes only its provider's record: when a save
\* writes, every other provider has in the file written the record, and the
\* lookup result, it had in the file the save read, whatever that file was;
\* and when nothing else wrote since the read, the record and the lookup
\* result it had just before the write.
C35_SaveFrame ==
    [][\A q \in Procs :
          (vpc[q] = "saving" /\ vpc'[q] = "idle")
             => \A provider \in Providers \ {view[q].provider} :
                   /\ SameFor(provider, view[q].seen, file')
                   /\ view[q].seen = file => SameFor(provider, file, file')]_vars

C35_Witness ==
    /\ result.op = "save"
    /\ result.provider = "anthropic"
    /\ lastWriter = result.proc
    /\ ~raced
    /\ damaged = {"openai"}
    /\ DOMAIN file.credentials = {"anthropic", "openai"}
    /\ getCredentials(file, "openai").outcome = "raised"

\* C36  Script temp-directory cleanup: when a session has ended, whether the
\* script succeeded, failed for good or a correction was declined, no
\* temporary directory of generateScript is left.
C36_TempDirRemoved ==
    pc \in {"Succeeded", "Failed", "Exit1", "Cancelled", "Copied"} => tempDirs = 0

\* C39  Git split-args launch preserves the artifact: for every child of the
\* git flow started in split-args mode, "git" followed by the launched
\* arguments, joined by single spaces, is the text that was to be executed.
C39_GitArgsPreserved ==
    \A i \in DOMAIN launched :
        LET l == launched[i]
        IN  (flow = "git" /\ ~l.shell /\ l.file = P_git)
               => JoinWords(<<P_git>> \o l.args) = ToStr(l.cmd)

\* C37  Default-provider invariant: after any sequence of configuration
\* commands the default provider, when set, is one of the providers that
\* listProviders reports as configured.
C37_DefaultConfigured ==
    appConfig.defaultProvider # "none"
       => Includes(listProviders(file).configured, appConfig.defaultProvider)

\* roles alternate, beginning with the user
Alternates(list) ==
    \A i \in DOMAIN list : list[i].role = IF i % 2 = 1 THEN "user" ELSE "assistant"

\* C38  Chat history is append-only and alternating: the messages of every
\* streamChat call of a chat session alternate user, assistant, ..., begin
\* with a user message and end with the newest user input, and are those of
\* the call before followed by that call's full reply and the new input.
C38_ChatHistory ==
    \A i \in DOMAIN calls :
        /\ calls[i] # <<>>
        /\ Alternates(calls[i])
        /\ calls[i][Len(calls[i])] = [role |-> "user", content |-> inputs[i]]
        /\ i > 1 => calls[i] = calls[i - 1] \o <<[role |-> "assistant", content |-> replies[i - 1]],
                                                 [role |-> "user", content |-> inputs[i]]>>

C38_Witness ==
    /\ chatpc = "streaming"
    /\ Len(calls) = MaxTurns
    /\ replies[1] = <<>>
    /\ replies[2] # <<>>
    /\ inputs[1] = M_hello
    /\ inputs[3] = M_pad_hi

====
